---- MODULE Spec2Model ----
(***************************************************************************)
(* ROAM terrain tessellation (source/Map/SMF/ROAM/Patch.cpp): the per-     *)
(* worker node pools (CTriNodePool), the binary triangle trees of a tile   *)
(* (Patch), Split, the variance precomputation, the tessellation walk and  *)
(* the index extraction.                                                   *)
(*                                                                         *)
(* Floats are modelled in fixed point.  Heights are integers in units of   *)
(* 1/HeightScale, variances integers in units of 1/VarScale; every float   *)
(* expression of the source that the model evaluates is exact in these     *)
(* units (halving a height difference, *1.5, the literals 0.001, 0.35,     *)
(* 1.0, 10.0 and 20.0).  The LOD factor 1/max(1, dist*300/viewRadius) is   *)
(* kept as the exact fraction it denotes.                                  *)
(***************************************************************************)
EXTENDS Integers, Sequences, FiniteSets, TLC

(***************************************************************************)
(* Program constants.  Patch.h, which sets PATCH_SIZE, VARIANCE_DEPTH and  *)
(* NEW_POOL_SIZE, is not among the source files; the model uses a small    *)
(* tile and a small pool so that whole tessellations can be enumerated.    *)
(***************************************************************************)
PATCH_SIZE == 4

VARIANCE_DEPTH == 2

NEW_POOL_SIZE == 8

\* ThreadPool::GetMaxThreads()
NumThreads == 2

\* tiles per render pass
NumPatches == 2

\* fixed-point units per 1.0f of a variance, and per 1.0f of a height
VarScale == 16000

HeightScale == 8

\* CRoamMeshDrawer::MESH_NORMAL / MESH_SHADOW, used as the bool shadowPass
Passes == {0, 1}

Threads == 1..NumThreads

PatchIds == 1..NumPatches

Max(a, b) == IF a >= b THEN a ELSE b

Min(a, b) == IF a <= b THEN a ELSE b

Abs(a) == IF a >= 0 THEN a ELSE -a

\* (1 << n)
RECURSIVE Pow2(_)
Pow2(n) == IF n = 0 THEN 1 ELSE 2 * Pow2(n - 1)

\* signed (a >> 1) on the non-negative coordinates the walks produce
Shr1(a) == a \div 2

(***************************************************************************)
(* TriTreeNode and the pointers to it.  A pointer is <<w, i>>: w = 0 names *)
(* a root triangle of the pass (i = 2p-1 is tile p's baseLeft, i = 2p its  *)
(* baseRight), w >= 1 names entry i of worker w's pool; NULL is nullptr.   *)
(***************************************************************************)
NULL == <<0, 0>>

BaseLeftOf(p) == <<0, 2 * p - 1>>

BaseRightOf(p) == <<0, 2 * p>>

PoolNode(w, i) == <<w, i>>

\* TriTreeNode(): every reference nullptr; also what memset(.., 0, ..) leaves
ZeroNode ==
  [LeftChild |-> NULL, RightChild |-> NULL,
   BaseNeighbor |-> NULL, LeftNeighbor |-> NULL, RightNeighbor |-> NULL]

\* a leaf has both child references absent
IsLeaf(n) == n.LeftChild = NULL /\ n.RightChild = NULL

IsBranch(n) == ~IsLeaf(n)

(***************************************************************************)
(* CTriNodePool.  A pool is [size, nextTriNodeIdx]; its entries live in    *)
(* the node memory of the pass under the pointers <<w, 0>> .. <<w, size-1>>*)
(***************************************************************************)
OutOfNodes(pool) == pool.nextTriNodeIdx >= pool.size

\* a pool size that is not rounded up to an even number
ThrPoolSizeUnrounded(newPoolSize) ==
  Max(newPoolSize \div NumThreads, newPoolSize \div 3)

\* thrPoolSize + (thrPoolSize & 1) of InitPools
ThrPoolSize(newPoolSize) ==
  LET thrPoolSize == Max(newPoolSize \div NumThreads, newPoolSize \div 3)
  IN  thrPoolSize + (thrPoolSize % 2)

\* newPoolSize - (newPoolSize >> 2)
ReducedPoolSize(newPoolSize) == newPoolSize - (newPoolSize \div 4)

(***************************************************************************)
(* Height samples of a tile: vertices[.. + 1], read by GetHeight.  A       *)
(* height field maps <<x, z>>, 0 <= x, z <= PATCH_SIZE, to a height.       *)
(***************************************************************************)
Grid == (0..PATCH_SIZE) \X (0..PATCH_SIZE)

\* level ground
FlatField == [g \in Grid |-> HeightScale]

\* one raised corner sample: the root error is exactly 1/16
CornerField == [g \in Grid |-> IF g = <<0, PATCH_SIZE>> THEN HeightScale + 1 ELSE HeightScale]

\* a hill in the upper-left quadrant
HillField == [g \in Grid |-> IF g = <<1, 1>> THEN 4 * HeightScale ELSE HeightScale]

\* a peak on the tile centre
PeakField == [g \in Grid |-> IF g = <<2, 2>> THEN 3 * HeightScale ELSE HeightScale]

\* a shore line: below zero on the left, above zero on the right
ShoreField == [g \in Grid |-> IF g[1] < 2 THEN -HeightScale ELSE HeightScale]

\* a bump on the middle of the border z = PATCH_SIZE: one triangle of the
\* second level has an error, the triangles beside it have none
RidgeField ==
  [g \in Grid |-> IF g = <<PATCH_SIZE \div 2, PATCH_SIZE>> THEN 4 * HeightScale
                                                           ELSE HeightScale]

HeightFields == {FlatField, CornerField, HillField, PeakField, ShoreField}

GetHeight(vertices, pos) == vertices[pos]

(***************************************************************************)
(* Variance precomputation.                                                *)
(***************************************************************************)
\* a clamp of 0.1f
CoarseMinVariance == VarScale \div 10

\* a clamp at zero
NoMinVariance == 0 * VarScale

\* 0.001f
MinVariance == VarScale \div 1000

\* 20.0f
ShoreVariance == 20 * VarScale

\* 10.0f
DefaultVariance == 10 * VarScale

\* varianceLeft.fill(0.0f)
ZeroVariance == [n \in 0..(Pow2(VARIANCE_DEPTH) - 1) |-> 0]

\* fabs(mhgt - (hgts.x + hgts.y) * 0.5f), in variance units
MidpointError(mhgt, hl, hr) == (Abs(2 * mhgt - hl - hr) * VarScale) \div (2 * HeightScale)

\* a node that keeps its own variance whatever its children have
OwnVarianceOnly(mine, child1Variance, child2Variance) == mine

\* final variance for this node is the max of its own variance and that of
\* its children
WithChildren(mine, child1Variance, child2Variance) ==
  Max(Max(mine, child1Variance), child2Variance)

\* returns [v |-> myVariance, cv |-> currentVariance]
RECURSIVE RecursComputeVariance(_, _, _, _, _, _, _)
RecursComputeVariance(vertices, cv, left, rght, apex, hgts, node) ==
  LET mpos == <<Shr1(left[1] + rght[1]), Shr1(left[2] + rght[2])>>
      mhgt == GetHeight(vertices, mpos)
      own  == MidpointError(mhgt, hgts[1], hgts[2])
      shore == (hgts[1] * hgts[2]) < 0 \/ (hgts[1] * mhgt) < 0 \/ (hgts[2] * mhgt) < 0
      mine == IF shore THEN Max((own * 3) \div 2, ShoreVariance) ELSE own
      deeper == Abs(left[1] - rght[1]) >= 4 \/ Abs(left[2] - rght[2]) >= 4
      c1 == RecursComputeVariance(vertices, cv, apex, left, mpos,
                                  <<hgts[3], hgts[1], mhgt>>, 2 * node)
      c2 == RecursComputeVariance(vertices, c1.cv, rght, apex, mpos,
                                  <<hgts[2], hgts[3], mhgt>>, 2 * node + 1)
      withKids == IF deeper THEN WithChildren(mine, c1.v, c2.v) ELSE mine
      cvKids == IF deeper THEN c2.cv ELSE cv
      myVariance == Max(MinVariance, withKids)
  IN  [v  |-> myVariance,
       cv |-> IF node < Pow2(VARIANCE_DEPTH)
              THEN [cvKids EXCEPT ![node] = myVariance] ELSE cvKids]

\* the two halves of ComputeVariance; each starts from the array as it is
ComputeVarianceLeft(vertices, cv) ==
  LET left == <<0, PATCH_SIZE>>
      rght == <<PATCH_SIZE, 0>>
      apex == <<0, 0>>
      hgts == <<GetHeight(vertices, left), GetHeight(vertices, rght), GetHeight(vertices, apex)>>
  IN  RecursComputeVariance(vertices, cv, left, rght, apex, hgts, 1).cv

ComputeVarianceRight(vertices, cv) ==
  LET left == <<PATCH_SIZE, 0>>
      rght == <<0, PATCH_SIZE>>
      apex == <<PATCH_SIZE, PATCH_SIZE>>
      hgts == <<GetHeight(vertices, left), GetHeight(vertices, rght), GetHeight(vertices, apex)>>
  IN  RecursComputeVariance(vertices, cv, left, rght, apex, hgts, 1).cv

(***************************************************************************)
(* Pool operations on one pool.                                            *)
(***************************************************************************)
\* a memset one node short
ResetNodesShort(m, w, pool) ==
  [q \in DOMAIN m |->
     IF q[1] = w /\ q[2] < pool.nextTriNodeIdx - 1 THEN ZeroNode ELSE m[q]]

\* a Reset that forgets the cursor
ResetPoolKeepsCursor(pool) == pool

\* an Allocate that takes both outputs from the same pool entry
AllocateSameNodeTwice(pool, w) ==
  IF pool.nextTriNodeIdx >= pool.size
  THEN [ok |-> FALSE, left |-> NULL, right |-> NULL, pool |-> pool]
  ELSE [ok    |-> TRUE,
        left  |-> <<w, pool.nextTriNodeIdx>>,
        right |-> <<w, pool.nextTriNodeIdx>>,
        pool  |-> [pool EXCEPT !.nextTriNodeIdx = pool.nextTriNodeIdx + 2]]

\* memset(&pool[0], 0, sizeof(TriTreeNode) * nextTriNodeIdx) on the memory m
ResetNodes(m, w, pool) ==
  [q \in DOMAIN m |->
     IF q[1] = w /\ q[2] < pool.nextTriNodeIdx THEN ZeroNode ELSE m[q]]

\* nextTriNodeIdx = 0
ResetPool(pool) == [pool EXCEPT !.nextTriNodeIdx = 0]

\* the memset of Reset for the pools 1..n of pls
RECURSIVE ResetEach(_, _, _)
ResetEach(m, pls, n) ==
  IF n = 0 THEN m ELSE ResetEach(ResetNodes(m, n, pls[n]), pls, n - 1)

\* returns the two outputs, the result and the pool
Allocate(pool, w) ==
  IF OutOfNodes(pool)
  THEN [ok |-> FALSE, left |-> NULL, right |-> NULL, pool |-> pool]
  ELSE [ok    |-> TRUE,
        left  |-> PoolNode(w, pool.nextTriNodeIdx),
        right |-> PoolNode(w, pool.nextTriNodeIdx + 1),
        pool  |-> [pool EXCEPT !.nextTriNodeIdx = pool.nextTriNodeIdx + 2]]

(***************************************************************************)
(* Split.  The walk state s is [m, pool, w, splits, allocs, visits]: the   *)
(* node memory of the pass, curTriPool and the worker that owns it, and    *)
(* the record of the calls made so far (what each Split call found and     *)
(* left, each Allocate call, each decision of the walk).                   *)
(***************************************************************************)
NodeAt(m, q) == IF q = NULL THEN ZeroNode ELSE m[q]

\* what a Split call on tri found (pre) and what it leaves when it returns
SplitRecord(tri, pre, m, ret, fail, illegal) ==
  LET t == m[tri]
      b == NodeAt(m, t.BaseNeighbor)
  IN  [tri |-> tri, ret |-> ret, fail |-> fail, illegal |-> illegal,
       pre |-> pre, post |-> t,
       lc |-> NodeAt(m, t.LeftChild), rc |-> NodeAt(m, t.RightChild),
       pbn |-> NodeAt(m, pre.BaseNeighbor), bn |-> b,
       bnl |-> NodeAt(m, b.LeftChild), bnr |-> NodeAt(m, b.RightChild)]

\* a relink that always writes the neighbor's LeftNeighbor
RelinkLeftWrongSlot(m, tri) ==
  LET ln == m[tri].LeftNeighbor
      lc == m[tri].LeftChild
  IN  IF ln = NULL THEN m ELSE [m EXCEPT ![ln].LeftNeighbor = lc]

\* a relink that always writes the neighbor's RightNeighbor
RelinkRightWrongSlot(m, tri) ==
  LET rn == m[tri].RightNeighbor
      rc == m[tri].RightChild
  IN  IF rn = NULL THEN m ELSE [m EXCEPT ![rn].RightNeighbor = rc]

\* link our left-neighbor to the new children
RelinkLeft(m, tri) ==
  LET ln == m[tri].LeftNeighbor
      lc == m[tri].LeftChild
  IN  IF ln = NULL THEN m
      ELSE IF m[ln].BaseNeighbor = tri THEN [m EXCEPT ![ln].BaseNeighbor = lc]
      ELSE IF m[ln].LeftNeighbor = tri THEN [m EXCEPT ![ln].LeftNeighbor = lc]
      ELSE IF m[ln].RightNeighbor = tri THEN [m EXCEPT ![ln].RightNeighbor = lc]
      ELSE m

\* link our right-neighbor to the new children
RelinkRight(m, tri) ==
  LET rn == m[tri].RightNeighbor
      rc == m[tri].RightChild
  IN  IF rn = NULL THEN m
      ELSE IF m[rn].BaseNeighbor = tri THEN [m EXCEPT ![rn].BaseNeighbor = rc]
      ELSE IF m[rn].RightNeighbor = tri THEN [m EXCEPT ![rn].RightNeighbor = rc]
      ELSE IF m[rn].LeftNeighbor = tri THEN [m EXCEPT ![rn].LeftNeighbor = rc]
      ELSE m

\* the "illegal Left neighbor" / "illegal Right neighbor" branches
IllegalNeighbor(m, tri, nb) ==
  /\ nb # NULL
  /\ m[nb].BaseNeighbor # tri
  /\ m[nb].LeftNeighbor # tri
  /\ m[nb].RightNeighbor # tri

\* base neighbor already split: cross-link the four children
LinkDiamond(m, tri) ==
  LET t == m[tri]
      b == m[t.BaseNeighbor]
  IN  [m EXCEPT ![b.LeftChild].RightNeighbor = t.RightChild,
                ![b.RightChild].LeftNeighbor = t.LeftChild,
                ![t.LeftChild].RightNeighbor = b.RightChild,
                ![t.RightChild].LeftNeighbor = b.LeftChild]

\* edge triangle, trivial case
LinkEdge(m, tri) ==
  LET t == m[tri]
  IN  [m EXCEPT ![t.LeftChild].RightNeighbor = NULL,
                ![t.RightChild].LeftNeighbor = NULL]

\* fill in the information we can get from the parent (neighbor pointers)
LinkChildren(m, tri) ==
  LET t == m[tri]
  IN  [m EXCEPT ![t.LeftChild].BaseNeighbor = t.LeftNeighbor,
                ![t.LeftChild].LeftNeighbor = t.RightChild,
                ![t.RightChild].BaseNeighbor = t.RightNeighbor,
                ![t.RightChild].RightNeighbor = t.LeftChild]

\* what a Split call returns, [s, ret, fail], with the call entered in the
\* record; fail says that an Allocate of the call, or of a call nested in it,
\* found the pool out of nodes
Returned(s, tri, pre, ret, fail, illegal) ==
  [s |-> [s EXCEPT !.splits =
            Append(@, SplitRecord(tri, pre, s.m, ret, fail, illegal))],
   ret |-> ret, fail |-> fail]

\* a Split that never force-splits its base neighbor
NeverNotInDiamond(m, tri) == FALSE

\* if (tri->BaseNeighbor != nullptr && tri->BaseNeighbor->BaseNeighbor != tri)
NotInDiamond(m, tri) ==
  m[tri].BaseNeighbor # NULL /\ m[m[tri].BaseNeighbor].BaseNeighbor # tri

\* the walk state after curTriPool->Allocate(tri->LeftChild, tri->RightChild)
\* has returned a
Allocated(s, a, tri) ==
  [s EXCEPT !.m = [@ EXCEPT ![tri].LeftChild = a.left, ![tri].RightChild = a.right],
            !.pool = a.pool,
            !.allocs = Append(@, [w |-> s.w, before |-> s.pool, after |-> a.pool,
                                  ok |-> a.ok, left |-> a.left, right |-> a.right])]

\* the links of the children and of the left and right neighbors
LinkNeighbors(m, tri) == RelinkRight(RelinkLeft(LinkChildren(m, tri), tri), tri)

\* one of the two "illegal neighbor" branches is taken
Illegal(m, tri) ==
  \/ IllegalNeighbor(m, tri, m[tri].LeftNeighbor)
  \/ IllegalNeighbor(RelinkLeft(m, tri), tri, m[tri].RightNeighbor)

RECURSIVE Split(_, _)

\* the force-split of the base neighbor; the result of Split is not looked at
ForceSplit(s, tri) ==
  IF NotInDiamond(s.m, tri)
  THEN Split(s, s.m[tri].BaseNeighbor)
  ELSE [s |-> s, ret |-> TRUE, fail |-> FALSE]

\* g is what Split on the base neighbor returned; the call returns true
AfterPartnerSplit(g, tri, pre, failed, illegal) ==
  Returned(g.s, tri, pre, TRUE, failed \/ g.fail, illegal)

\* link our base-neighbor to the new children
LinkBase(s, tri, pre, failed, illegal) ==
  IF s.m[tri].BaseNeighbor = NULL
  THEN Returned([s EXCEPT !.m = LinkEdge(@, tri)], tri, pre, TRUE, failed, illegal)
  ELSE IF IsBranch(s.m[s.m[tri].BaseNeighbor])
  THEN Returned([s EXCEPT !.m = LinkDiamond(@, tri)], tri, pre, TRUE, failed, illegal)
  ELSE AfterPartnerSplit(Split(s, s.m[tri].BaseNeighbor), tri, pre, failed, illegal)

\* s is the walk state after Allocate returned a
AfterAllocate(s, a, tri, pre, failed) ==
  IF ~a.ok
  THEN Returned(s, tri, pre, FALSE, TRUE, FALSE)
  ELSE LinkBase([s EXCEPT !.m = LinkNeighbors(@, tri)], tri, pre, failed,
                Illegal(LinkChildren(s.m, tri), tri))

\* f is what the force-split left
AfterForceSplit(f, tri, pre) ==
  AfterAllocate(Allocated(f.s, Allocate(f.s.pool, f.s.w), tri),
                Allocate(f.s.pool, f.s.w), tri, pre, f.fail)

Split(s, tri) ==
  IF ~IsLeaf(s.m[tri])
  THEN Returned(s, tri, s.m[tri], TRUE, FALSE, FALSE)
  ELSE AfterForceSplit(ForceSplit(s, tri), tri, s.m[tri])

(***************************************************************************)
(* The tessellation walk.                                                  *)
(***************************************************************************)
\* a LOD factor that does not fall with the camera distance
NoLODFalloff(dist, viewRadius) == <<1, 1>>

\* camDistLODFactor = 1 / max(1, dist * (300 / viewRadius)), as <<num, den>>
CamDistLODFactor(dist, viewRadius) ==
  IF 300 * dist <= viewRadius THEN <<1, 1>> ELSE <<viewRadius, 300 * dist>>

\* viewRadius * 0.35f
VarianceMaxLimit(viewRadius) == (viewRadius * 35 * VarScale) \div 100

\* max(sizeX, sizeY)
TriSize(left, right) ==
  Max(Max(left[1] - right[1], right[1] - left[1]),
      Max(left[2] - right[2], right[2] - left[2]))

\* triVariance as the fraction <<num, den>> of variance units
TriVariance(cv, limit, lod, left, right, node) ==
  IF node < Pow2(VARIANCE_DEPTH)
  THEN <<Min(cv[node], limit) * PATCH_SIZE * TriSize(left, right) * lod[1], lod[2]>>
  ELSE <<DefaultVariance, 1>>

\* a walk that stops only strictly below the threshold
StopBelowThreshold(triVariance) == triVariance[1] < VarScale * triVariance[2]

\* if (triVariance <= 1.0f) return;
StopTessellation(triVariance) == triVariance[1] <= VarScale * triVariance[2]

\* a walk that never bails out
NeverRefined(left, right) == FALSE

\* bail if we can not tessellate further in at least one dimension
FullyRefined(left, right) ==
  Abs(left[1] - right[1]) <= 1 /\ Abs(left[2] - right[2]) <= 1

Center(left, right) == <<Shr1(left[1] + right[1]), Shr1(left[2] + right[2])>>

\* the walk state with the decision taken at a node entered in the record
Visited(s, c, tri, left, right, node, called) ==
  [s EXCEPT !.visits = Append(@, [tri |-> tri, side |-> c.side, node |-> node,
                                  left |-> left, right |-> right, called |-> called])]

\* c is [cv, limit, lod, side]: currentVariance, varianceMaxLimit,
\* camDistLODFactor, and which of the two variance arrays cv is
RECURSIVE RecursTessellate(_, _, _, _, _, _, _)

\* if (tri->IsBranch()): triangle was split, also try to split its children
TessellateChildren(s, c, tri, left, right, apex, node) ==
  IF IsBranch(s.m[tri])
  THEN RecursTessellate(
         RecursTessellate(s, c, s.m[tri].LeftChild, apex, left,
                          Center(left, right), 2 * node),
         c, s.m[tri].RightChild, right, apex, Center(left, right), 2 * node + 1)
  ELSE s

RecursTessellate(s, c, tri, left, right, apex, node) ==
  IF FullyRefined(left, right) THEN s
  ELSE IF StopTessellation(TriVariance(c.cv, c.limit, c.lod, left, right, node))
  THEN Visited(s, c, tri, left, right, node, FALSE)
  ELSE TessellateChildren(Split(Visited(s, c, tri, left, right, node, TRUE), tri).s,
                          c, tri, left, right, apex, node)

(***************************************************************************)
(* Index extraction.                                                       *)
(***************************************************************************)
\* an index into rows of PATCH_SIZE vertices
VertexIndexShortRow(pos) == pos[1] + pos[2] * PATCH_SIZE

VertexIndex(pos) == pos[1] + pos[2] * (PATCH_SIZE + 1)

RECURSIVE RecursGenIndices(_, _, _, _, _)
RecursGenIndices(m, tri, left, right, apex) ==
  IF IsLeaf(m[tri])
  THEN <<VertexIndex(apex), VertexIndex(left), VertexIndex(right)>>
  ELSE LET center == Center(left, right)
       IN  RecursGenIndices(m, m[tri].LeftChild, apex, left, center)
           \o RecursGenIndices(m, m[tri].RightChild, right, apex, center)

(***************************************************************************)
(* Border skirts.  A border vertex is [pos, y, alpha]: its grid position,  *)
(* its height and the alpha of its colour.                                 *)
(***************************************************************************)
\* -400.0f, in height units
SkirtDepth == -400 * HeightScale

\* a vertex of the tile with colour white, or the vertex below it at the
\* skirt depth with colour trans
BorderVertex(vertices, pos, top) ==
  [pos |-> pos,
   y |-> IF top THEN GetHeight(vertices, pos) ELSE SkirtDepth,
   alpha |-> IF top THEN 255 ELSE 0]

\* the six vertices pushed for the edge from a to b
SkirtQuad(vertices, a, b) ==
  << BorderVertex(vertices, a, TRUE), BorderVertex(vertices, a, FALSE),
     BorderVertex(vertices, b, TRUE),
     BorderVertex(vertices, a, FALSE), BorderVertex(vertices, b, FALSE),
     BorderVertex(vertices, b, TRUE) >>

\* a descent that hands the side down unchanged at odd depths
KeepBias(side) == side

\* at odd depths always force a left-bias for the next call
ForceLeftBias(side) == TRUE

\* depth is <<depth.x, depth.y>>, depth.y a boolean
RECURSIVE RecursGenBorderVertices(_, _, _, _, _, _, _)
RecursGenBorderVertices(m, vertices, tri, left, rght, apex, depth) ==
  IF IsLeaf(m[tri])
  THEN IF depth[1] % 2 = 0 THEN SkirtQuad(vertices, left, rght)
       ELSE IF depth[2] THEN SkirtQuad(vertices, apex, left)
       ELSE SkirtQuad(vertices, rght, apex)
  ELSE IF depth[1] % 2 = 0
  THEN RecursGenBorderVertices(m, vertices, m[tri].LeftChild, apex, left,
                               Center(left, rght), <<depth[1] + 1, ~depth[2]>>)
       \o RecursGenBorderVertices(m, vertices, m[tri].RightChild, rght, apex,
                                  Center(left, rght), <<depth[1] + 1, depth[2]>>)
  ELSE IF depth[2]
  THEN RecursGenBorderVertices(m, vertices, m[tri].LeftChild, apex, left,
                               Center(left, rght),
                               <<depth[1] + 1, ForceLeftBias(depth[2])>>)
  ELSE RecursGenBorderVertices(m, vertices, m[tri].RightChild, rght, apex,
                               Center(left, rght),
                               <<depth[1] + 1, ForceLeftBias(depth[2])>>)

\* the walk of one border, made when the base triangle has no neighbor there
BorderOf(m, vertices, tri, neighbor, left, rght, apex, side) ==
  IF neighbor = NULL
  THEN RecursGenBorderVertices(m, vertices, tri, left, rght, apex, <<1, side>>)
  ELSE <<>>

\* borderVertices.clear() and the four walks
GeneratedBorderVertices(m, vertices, p) ==
  BorderOf(m, vertices, BaseLeftOf(p), m[BaseLeftOf(p)].LeftNeighbor,
           <<0, PATCH_SIZE>>, <<PATCH_SIZE, 0>>, <<0, 0>>, TRUE)
  \o BorderOf(m, vertices, BaseLeftOf(p), m[BaseLeftOf(p)].RightNeighbor,
              <<0, PATCH_SIZE>>, <<PATCH_SIZE, 0>>, <<0, 0>>, FALSE)
  \o BorderOf(m, vertices, BaseRightOf(p), m[BaseRightOf(p)].RightNeighbor,
              <<PATCH_SIZE, 0>>, <<0, PATCH_SIZE>>, <<PATCH_SIZE, PATCH_SIZE>>, FALSE)
  \o BorderOf(m, vertices, BaseRightOf(p), m[BaseRightOf(p)].LeftNeighbor,
              <<PATCH_SIZE, 0>>, <<0, PATCH_SIZE>>, <<PATCH_SIZE, PATCH_SIZE>>, TRUE)

(***************************************************************************)
(* State.                                                                  *)
(***************************************************************************)
VARIABLES
  CUR_POOL_SIZE,   \* static size_t CUR_POOL_SIZE
  MAX_POOL_SIZE,   \* static size_t MAX_POOL_SIZE
  pools,           \* pools[shadowPass]: the vector of CTriNodePool, one per worker
  mem,             \* mem[shadowPass]: the TriTreeNodes of the pass, by pointer
  patches,         \* patches[shadowPass][p]: the Patch members
  memLimit,        \* nodes the allocator can give to the pools of one pass
  initCall,        \* the InitPools call in progress, if any
  phase,           \* phase[shadowPass]: where the pass's update cycle stands
  todo,            \* todo[shadowPass]: tiles the current phase has yet to handle
  history,         \* history[shadowPass][p]: inputs and result of the last Tessellate
  issued,          \* issued[shadowPass][w]: nodes handed out since the pool's last Reset
  lastCall,        \* the call made by the last step, with what it observed
  walk             \* walk[w]: the Tessellate call worker w is in, and where it stands

vars == <<CUR_POOL_SIZE, MAX_POOL_SIZE, pools, mem, patches, memLimit,
          initCall, phase, todo, history, issued, lastCall, walk>>

\* std::numeric_limits<float>::max()
FloatMax == 2147483647

\* nodes available to one pass's pools: ample, tight, and next to nothing
MemLimits == {1000, 12, 2}

\* (dist, viewRadius) inputs of Tessellate: dist is midPos.distance(camPos)
Views == {<<0, 1000>>, <<1, 15>>, <<100, 1>>}

\* tile p covers the grid squares from Coors(p)
Coors(p) == <<(p - 1) * PATCH_SIZE, 0>>

Roots == UNION {{BaseLeftOf(p), BaseRightOf(p)} : p \in PatchIds}

\* Patch::Reset on the memory m
\* a Reset that clears only the left child of the two roots
PatchResetLeftOnly(m, p) ==
  [m EXCEPT ![BaseLeftOf(p)]  = [@ EXCEPT !.LeftChild = NULL],
            ![BaseRightOf(p)] = [@ EXCEPT !.LeftChild = NULL]]

PatchResetNodes(m, p) ==
  [m EXCEPT ![BaseLeftOf(p)]  = [ZeroNode EXCEPT !.BaseNeighbor = BaseRightOf(p)],
            ![BaseRightOf(p)] = [ZeroNode EXCEPT !.BaseNeighbor = BaseLeftOf(p)]]

\* Patch::Patch and Patch::Init
NewPatch(field) ==
  [isDirty |-> TRUE, isTesselated |-> FALSE,
   varianceLeft |-> ZeroVariance, varianceRight |-> ZeroVariance,
   varianceMaxLimit |-> FloatMax, camDistLODFactor |-> <<1, 1>>,
   vertices |-> field, indices |-> <<>>, borderVertices |-> <<>>]

NoInitCall == [active |-> FALSE, shadowPass |-> 0, newPoolSize |-> 0]

\* a worker that is in no Tessellate call.  state is "idle", "running" or
\* "returned"; stack holds the RecursTessellate calls still to be made, the
\* next one first; written and cursors are the nodes and the pools the call
\* has written; overlapped says that another worker made a step meanwhile;
\* sequential is what the call leaves when nothing runs beside it
NoWalk ==
  [state |-> "idle", shadowPass |-> 0, p |-> 0, stack |-> <<>>,
   written |-> {}, cursors |-> {}, overlapped |-> FALSE,
   sequential |-> [m |-> <<>>, pool |-> <<>>]]

NoCall ==
  [op |-> "none", shadowPass |-> 0, p |-> 0, w |-> 0, view |-> <<0, 0>>,
   ret |-> TRUE, outOfNodes |-> FALSE, cur |-> 0, max |-> 0, sizes |-> <<>>,
   cursors |-> <<>>, issued |-> {}, retried |-> FALSE, indices |-> <<>>,
   borderVertices |-> <<>>, wasTesselated |-> FALSE,
   splits |-> <<>>, allocs |-> <<>>, visits |-> <<>>]

\* tessellated: by the last cycle that handled the tile; current: in this cycle;
\* same: the last two Tessellate calls got the same inputs
NoHistory == [tessellated |-> FALSE, current |-> FALSE, view |-> <<0, 0>>,
              ret |-> TRUE, same |-> FALSE, prevRet |-> TRUE]

\* the state after construction, for a height field and a memory limit
\* drawn from the given sets
InitWith(fields, limits) ==
  /\ CUR_POOL_SIZE = 0
  /\ MAX_POOL_SIZE = NEW_POOL_SIZE * 8
  /\ pools = [ps \in Passes |-> <<>>]
  /\ mem = [ps \in Passes |->
              [q \in Roots |->
                 IF q[2] % 2 = 1
                 THEN [ZeroNode EXCEPT !.BaseNeighbor = <<0, q[2] + 1>>]
                 ELSE [ZeroNode EXCEPT !.BaseNeighbor = <<0, q[2] - 1>>]]]
  /\ \E field \in fields :
       patches = [ps \in Passes |-> [p \in PatchIds |-> NewPatch(field)]]
  /\ memLimit \in limits
  /\ initCall = NoInitCall
  /\ phase = [ps \in Passes |-> "new"]
  /\ todo = [ps \in Passes |-> {}]
  /\ history = [ps \in Passes |-> [p \in PatchIds |-> NoHistory]]
  /\ issued = [ps \in Passes |-> [w \in Threads |-> {}]]
  /\ lastCall = NoCall
  /\ walk = [w \in Threads |-> NoWalk]

(***************************************************************************)
(* InitPools.  One attempt: CUR_POOL_SIZE is set, the old pools of the     *)
(* pass are dropped and numThreads pools are built; when the allocator     *)
(* cannot supply them (bad_alloc) the handler lowers MAX_POOL_SIZE and     *)
(* calls InitPools again, which is the call left in initCall.              *)
(***************************************************************************)
\* pools[shadowPass].emplace_back(..) succeeds for every worker
PoolsFit(newPoolSize) == NumThreads * ThrPoolSize(newPoolSize) <= memLimit

\* the node memory with the pass's pool entries replaced by fresh ones
FreshPoolNodes(m, size) ==
  [q \in Roots \cup (Threads \X (0..(size - 1))) |->
     IF q \in Roots THEN m[q] ELSE ZeroNode]

InitPoolsAttempt(shadowPass, newPoolSize) ==
  /\ CUR_POOL_SIZE' = newPoolSize
  /\ IF PoolsFit(newPoolSize)
     THEN /\ pools' = [pools EXCEPT ![shadowPass] =
                         [w \in Threads |->
                            [size |-> ThrPoolSize(newPoolSize), nextTriNodeIdx |-> 0]]]
          /\ mem' = [mem EXCEPT ![shadowPass] =
                       FreshPoolNodes(@, ThrPoolSize(newPoolSize))]
          /\ initCall' = NoInitCall
          /\ UNCHANGED MAX_POOL_SIZE
     ELSE /\ pools' = [pools EXCEPT ![shadowPass] = <<>>]
          /\ mem' = [mem EXCEPT ![shadowPass] = FreshPoolNodes(@, 0)]
          /\ MAX_POOL_SIZE' = ReducedPoolSize(newPoolSize)
          /\ initCall' = [active |-> TRUE, shadowPass |-> shadowPass,
                          newPoolSize |-> ReducedPoolSize(newPoolSize)]

\* the first InitPools of a pass, made when the mesh drawer is set up
InitPools(shadowPass) ==
  /\ ~initCall.active
  /\ phase[shadowPass] = "new"
  /\ InitPoolsAttempt(shadowPass, NEW_POOL_SIZE)
  /\ phase' = [phase EXCEPT ![shadowPass] = "idle"]
  /\ lastCall' = [NoCall EXCEPT !.op = "InitPools", !.shadowPass = shadowPass,
                                !.cur = CUR_POOL_SIZE, !.max = MAX_POOL_SIZE]
  /\ UNCHANGED <<patches, memLimit, todo, history, issued, walk>>

\* the recursive InitPools call of the bad_alloc handler
InitPoolsRetry ==
  /\ initCall.active
  /\ InitPoolsAttempt(initCall.shadowPass, initCall.newPoolSize)
  /\ lastCall' = [lastCall EXCEPT !.retried = TRUE]
  /\ UNCHANGED <<patches, memLimit, phase, todo, history, issued, walk>>

(***************************************************************************)
(* The update cycle of a pass, as the mesh drawer runs it between frames:  *)
(* ResetAll, Patch::Reset on every tile, Tessellate on the visible tiles   *)
(* (each by some worker), then GenerateIndices on every tile.  One pass is *)
(* updated at a time.                                                      *)
(***************************************************************************)
OthersQuiet(shadowPass) ==
  /\ ~initCall.active
  /\ \A ps \in Passes \ {shadowPass} : phase[ps] \in {"new", "idle"}

MinOf(S) == CHOOSE x \in S : \A y \in S : x <= y

ComputeVariance(shadowPass, p) ==
  /\ OthersQuiet(shadowPass)
  /\ phase[shadowPass] = "idle"
  /\ patches[shadowPass][p].isDirty
  /\ LET pt == patches[shadowPass][p]
     IN  patches' = [patches EXCEPT ![shadowPass][p] =
           [pt EXCEPT !.varianceLeft  = ComputeVarianceLeft(pt.vertices, pt.varianceLeft),
                      !.varianceRight = ComputeVarianceRight(pt.vertices, pt.varianceRight),
                      !.isDirty = FALSE]]
  /\ lastCall' = [NoCall EXCEPT !.op = "ComputeVariance",
                                !.shadowPass = shadowPass, !.p = p]
  /\ UNCHANGED <<CUR_POOL_SIZE, MAX_POOL_SIZE, pools, mem, memLimit, initCall,
                 phase, todo, history, issued, walk>>

\* the samples of rect copied from the height map, the others kept
UpdatedVertices(vertices, hMap, rect) ==
  [g \in Grid |-> IF g[1] \in rect[1] /\ g[2] \in rect[2] THEN hMap[g]
                                                           ELSE vertices[g]]

\* Patch::UpdateHeightMap, between two update cycles
UpdateHeightMap(shadowPass, p, hMap, rect) ==
  /\ OthersQuiet(shadowPass)
  /\ phase[shadowPass] = "idle"
  /\ patches' = [patches EXCEPT ![shadowPass][p] =
       [@ EXCEPT !.vertices = UpdatedVertices(@, hMap, rect),
                 !.isDirty = TRUE]]
  /\ lastCall' = [NoCall EXCEPT !.op = "UpdateHeightMap",
                                !.shadowPass = shadowPass, !.p = p]
  /\ UNCHANGED <<CUR_POOL_SIZE, MAX_POOL_SIZE, pools, mem, memLimit, initCall,
                 phase, todo, history, issued, walk>>

ResetAll(shadowPass) ==
  /\ OthersQuiet(shadowPass)
  /\ phase[shadowPass] = "idle"
  /\ \A p \in PatchIds : ~patches[shadowPass][p].isDirty
  /\ LET outOfNodes == \E w \in DOMAIN pools[shadowPass] :
                          OutOfNodes(pools[shadowPass][w])
     IN  /\ IF ~outOfNodes \/ CUR_POOL_SIZE >= MAX_POOL_SIZE
            THEN /\ pools' = [pools EXCEPT ![shadowPass] =
                                [w \in DOMAIN @ |-> ResetPool(@[w])]]
                 /\ mem' = [mem EXCEPT ![shadowPass] =
                              ResetEach(@, pools[shadowPass], Len(pools[shadowPass]))]
                 /\ UNCHANGED <<CUR_POOL_SIZE, MAX_POOL_SIZE, initCall>>
            ELSE InitPoolsAttempt(shadowPass, Min(CUR_POOL_SIZE * 2, MAX_POOL_SIZE))
         /\ lastCall' = [NoCall EXCEPT
              !.op = "ResetAll", !.shadowPass = shadowPass,
              !.outOfNodes = outOfNodes,
              !.cur = CUR_POOL_SIZE, !.max = MAX_POOL_SIZE,
              !.sizes = [w \in DOMAIN pools[shadowPass] |-> pools[shadowPass][w].size],
              !.cursors = [w \in DOMAIN pools[shadowPass] |->
                             pools[shadowPass][w].nextTriNodeIdx]]
  /\ issued' = [issued EXCEPT ![shadowPass] = [w \in Threads |-> {}]]
  /\ phase' = [phase EXCEPT ![shadowPass] = "reset"]
  /\ todo' = [todo EXCEPT ![shadowPass] = PatchIds]
  /\ walk' = [w \in Threads |-> NoWalk]
  /\ UNCHANGED <<patches, memLimit, history>>

PatchReset(shadowPass, p) ==
  /\ ~initCall.active
  /\ phase[shadowPass] = "reset"
  /\ p = MinOf(todo[shadowPass])
  /\ mem' = [mem EXCEPT ![shadowPass] = PatchResetNodes(@, p)]
  /\ IF todo[shadowPass] = {p}
     THEN /\ phase' = [phase EXCEPT ![shadowPass] = "tess"]
          /\ todo' = [todo EXCEPT ![shadowPass] = PatchIds]
     ELSE /\ todo' = [todo EXCEPT ![shadowPass] = @ \ {p}]
          /\ UNCHANGED phase
  /\ history' = [history EXCEPT ![shadowPass][p].current = FALSE]
  /\ lastCall' = [NoCall EXCEPT !.op = "PatchReset",
                                !.shadowPass = shadowPass, !.p = p]
  /\ UNCHANGED <<CUR_POOL_SIZE, MAX_POOL_SIZE, pools, patches, memLimit, initCall,
                 issued, walk>>

\* the walk of Tessellate over the two base triangles, from walk state s
TessellateWalk(s, pt, p, lod, limit) ==
  RecursTessellate(
    RecursTessellate(s,
      [cv |-> pt.varianceLeft, limit |-> limit, lod |-> lod, side |-> "L"],
      BaseLeftOf(p),
      <<Coors(p)[1], Coors(p)[2] + PATCH_SIZE>>,
      <<Coors(p)[1] + PATCH_SIZE, Coors(p)[2]>>,
      <<Coors(p)[1], Coors(p)[2]>>, 1),
    [cv |-> pt.varianceRight, limit |-> limit, lod |-> lod, side |-> "R"],
    BaseRightOf(p),
    <<Coors(p)[1] + PATCH_SIZE, Coors(p)[2]>>,
    <<Coors(p)[1], Coors(p)[2] + PATCH_SIZE>>,
    <<Coors(p)[1] + PATCH_SIZE, Coors(p)[2] + PATCH_SIZE>>, 1)

\* a Tessellate that always reports success
AlwaysTrue(pool) == TRUE

\* return (!curTriPool->OutOfNodes())
TessellateResult(pool) == ~OutOfNodes(pool)

\* the walk state a Tessellate call starts from
WalkStart(shadowPass, w) ==
  [m |-> mem[shadowPass], pool |-> pools[shadowPass][w], w |-> w,
   splits |-> <<>>, allocs |-> <<>>, visits |-> <<>>]

\* the nodes the Allocate calls of the record handed out
HandedOut(allocs) ==
  UNION {{allocs[i].left, allocs[i].right} \ {NULL} : i \in DOMAIN allocs}

Tessellate(shadowPass, p, w, view) ==
  /\ ~initCall.active
  /\ phase[shadowPass] = "tess"
  /\ p \in todo[shadowPass]
  \* after ResetAll the pools of a pass are alike, so the worker that takes
  \* the first tile of a cycle is numbered 1
  /\ todo[shadowPass] = PatchIds => w = 1
  /\ \E s1 \in {TessellateWalk(WalkStart(shadowPass, w), patches[shadowPass][p], p,
                               CamDistLODFactor(view[1], view[2]),
                               VarianceMaxLimit(view[2]))} :
       /\ mem' = [mem EXCEPT ![shadowPass] = s1.m]
       /\ pools' = [pools EXCEPT ![shadowPass][w] = s1.pool]
       /\ patches' = [patches EXCEPT ![shadowPass][p] =
            [@ EXCEPT !.isTesselated = TRUE,
                      !.camDistLODFactor = CamDistLODFactor(view[1], view[2]),
                      !.varianceMaxLimit = VarianceMaxLimit(view[2])]]
       /\ history' = [history EXCEPT ![shadowPass][p] =
            [tessellated |-> TRUE, current |-> TRUE, view |-> view,
             ret |-> TessellateResult(s1.pool),
             same |-> @.tessellated /\ @.view = view, prevRet |-> @.ret]]
       /\ lastCall' = [NoCall EXCEPT
            !.op = "Tessellate", !.shadowPass = shadowPass, !.p = p, !.w = w,
            !.view = view, !.ret = TessellateResult(s1.pool),
            !.issued = issued[shadowPass][w],
            !.splits = s1.splits, !.allocs = s1.allocs, !.visits = s1.visits]
       /\ issued' = [issued EXCEPT ![shadowPass][w] = @ \cup HandedOut(s1.allocs)]
  /\ todo' = [todo EXCEPT ![shadowPass] = @ \ {p}]
  /\ UNCHANGED <<CUR_POOL_SIZE, MAX_POOL_SIZE, memLimit, initCall, phase, walk>>

(***************************************************************************)
(* Tessellate as the worker threads run it: one step per RecursTessellate  *)
(* call, the calls of different workers interleaved.                       *)
(***************************************************************************)
\* a GetPool that hands every worker the pool of the first thread
GetPoolOfFirstThread(shadowPass, w) == <<shadowPass, 1>>

\* return &pools[shadowPass][ThreadPool::GetThreadNum()], as the pair of
\* indices of the pool
GetPool(shadowPass, w) == <<shadowPass, w>>

\* the two RecursTessellate calls of Tessellate, baseLeft first
RootCalls(p) ==
  << [side |-> "L", tri |-> BaseLeftOf(p),
      left |-> <<Coors(p)[1], Coors(p)[2] + PATCH_SIZE>>,
      right |-> <<Coors(p)[1] + PATCH_SIZE, Coors(p)[2]>>,
      apex |-> <<Coors(p)[1], Coors(p)[2]>>, node |-> 1],
     [side |-> "R", tri |-> BaseRightOf(p),
      left |-> <<Coors(p)[1] + PATCH_SIZE, Coors(p)[2]>>,
      right |-> <<Coors(p)[1], Coors(p)[2] + PATCH_SIZE>>,
      apex |-> <<Coors(p)[1] + PATCH_SIZE, Coors(p)[2] + PATCH_SIZE>>,
      node |-> 1] >>

\* the two recursive calls of RecursTessellate on a branch, left child first
ChildCalls(m, f) ==
  IF IsBranch(m[f.tri])
  THEN << [side |-> f.side, tri |-> m[f.tri].LeftChild, left |-> f.apex,
           right |-> f.left, apex |-> Center(f.left, f.right),
           node |-> 2 * f.node],
          [side |-> f.side, tri |-> m[f.tri].RightChild, left |-> f.right,
           right |-> f.apex, apex |-> Center(f.left, f.right),
           node |-> 2 * f.node + 1] >>
  ELSE <<>>

\* the nodes a Tessellate of tile p by worker w may write: the two roots of
\* the tile and the nodes of the worker's pool
OwnNodes(m, p, w) ==
  {BaseLeftOf(p), BaseRightOf(p)} \cup {q \in DOMAIN m : q[1] = w}

\* what a Tessellate that runs alone leaves in the nodes it may write and in
\* its pool
SequentialOutcome(s1, p, w) ==
  [m |-> [q \in OwnNodes(s1.m, p, w) |-> s1.m[q]], pool |-> s1.pool]

\* the first lines of Tessellate: isTesselated, curTriPool, the LOD factor
\* and the variance ceiling; the two root calls are still to be made
BeginTessellate(shadowPass, p, w, view) ==
  /\ ~initCall.active
  /\ phase[shadowPass] = "tess"
  /\ p \in todo[shadowPass]
  /\ walk[w].state # "running"
  /\ (todo[shadowPass] = PatchIds /\ \A v \in Threads : walk[v].state = "idle")
       => w = 1
  /\ patches' = [patches EXCEPT ![shadowPass][p] =
       [@ EXCEPT !.isTesselated = TRUE,
                 !.camDistLODFactor = CamDistLODFactor(view[1], view[2]),
                 !.varianceMaxLimit = VarianceMaxLimit(view[2])]]
  /\ \E s1 \in {TessellateWalk(WalkStart(shadowPass, w), patches[shadowPass][p], p,
                               CamDistLODFactor(view[1], view[2]),
                               VarianceMaxLimit(view[2]))} :
       walk' = [v \in Threads |->
         IF v = w
         THEN [state |-> "running", shadowPass |-> shadowPass, p |-> p,
               stack |-> RootCalls(p), written |-> {}, cursors |-> {},
               overlapped |-> FALSE,
               sequential |-> SequentialOutcome(s1, p, w)]
         ELSE walk[v]]
  /\ history' = [history EXCEPT ![shadowPass][p] =
       [tessellated |-> TRUE, current |-> FALSE, view |-> view, ret |-> TRUE,
        same |-> @.tessellated /\ @.view = view, prevRet |-> @.ret]]
  /\ lastCall' = [NoCall EXCEPT
       !.op = "BeginTessellate", !.shadowPass = shadowPass, !.p = p, !.w = w,
       !.view = view]
  /\ todo' = [todo EXCEPT ![shadowPass] = @ \ {p}]
  /\ UNCHANGED <<CUR_POOL_SIZE, MAX_POOL_SIZE, pools, mem, memLimit, initCall,
                 phase, issued>>

\* the walk of worker w after its next call f, which left s1 where it found
\* memory m and pool; the other running workers saw a step beside theirs
Stepped(w, f, k, m, pool, s1, calls) ==
  [v \in Threads |->
    IF v = w
    THEN [walk[w] EXCEPT
           !.stack = calls \o Tail(@),
           !.written = @ \cup {q \in DOMAIN m : s1.m[q] # m[q]},
           !.cursors = @ \cup (IF s1.pool # pool THEN {k} ELSE {}),
           !.overlapped = @ \/ \E u \in Threads \ {w} : walk[u].state = "running"]
    ELSE IF walk[v].state = "running"
    THEN [walk[v] EXCEPT !.overlapped = TRUE]
    ELSE walk[v]]

\* one RecursTessellate call of worker w, without the calls it makes on the
\* children: the two early returns, or the Split
StepTessellate(w) ==
  /\ walk[w].state = "running"
  /\ walk[w].stack # <<>>
  /\ \E f \in {Head(walk[w].stack)},
        k \in {GetPool(walk[w].shadowPass, w)},
        pt \in {patches[walk[w].shadowPass][walk[w].p]} :
       IF \/ FullyRefined(f.left, f.right)
          \/ StopTessellation(
               TriVariance(IF f.side = "L" THEN pt.varianceLeft
                                           ELSE pt.varianceRight,
                           pt.varianceMaxLimit, pt.camDistLODFactor,
                           f.left, f.right, f.node))
       THEN /\ walk' = [walk EXCEPT ![w].stack = Tail(@)]
            /\ UNCHANGED <<mem, pools, issued>>
       ELSE \E s1 \in {Split([m |-> mem[k[1]], pool |-> pools[k[1]][k[2]],
                              w |-> k[2], splits |-> <<>>, allocs |-> <<>>,
                              visits |-> <<>>], f.tri).s} :
              /\ mem' = [mem EXCEPT ![k[1]] = s1.m]
              /\ pools' = [pools EXCEPT ![k[1]][k[2]] = s1.pool]
              /\ issued' = [issued EXCEPT ![k[1]][k[2]] =
                              @ \cup HandedOut(s1.allocs)]
              /\ walk' = Stepped(w, f, k[2], mem[k[1]], pools[k[1]][k[2]], s1,
                                 ChildCalls(s1.m, f))
  /\ lastCall' = [NoCall EXCEPT
       !.op = "StepTessellate", !.shadowPass = walk[w].shadowPass,
       !.p = walk[w].p, !.w = w]
  /\ UNCHANGED <<CUR_POOL_SIZE, MAX_POOL_SIZE, patches, memLimit, initCall,
                 phase, todo, history>>

\* return (!curTriPool->OutOfNodes())
EndTessellate(w) ==
  /\ walk[w].state = "running"
  /\ walk[w].stack = <<>>
  /\ \E k \in {GetPool(walk[w].shadowPass, w)} :
       /\ history' = [history EXCEPT ![walk[w].shadowPass][walk[w].p] =
            [@ EXCEPT !.current = TRUE,
                      !.ret = TessellateResult(pools[k[1]][k[2]])]]
       /\ lastCall' = [NoCall EXCEPT
            !.op = "EndTessellate", !.shadowPass = walk[w].shadowPass,
            !.p = walk[w].p, !.w = w,
            !.ret = TessellateResult(pools[k[1]][k[2]])]
  /\ walk' = [walk EXCEPT ![w].state = "returned"]
  /\ UNCHANGED <<CUR_POOL_SIZE, MAX_POOL_SIZE, pools, mem, patches, memLimit,
                 initCall, phase, todo, issued>>


\* a GenerateIndices that appends to the list it finds
GeneratedIndicesNoClear(indices, m, p) ==
  indices
  \o RecursGenIndices(m, BaseLeftOf(p),
                      <<0, PATCH_SIZE>>, <<PATCH_SIZE, 0>>, <<0, 0>>)
  \o RecursGenIndices(m, BaseRightOf(p),
                      <<PATCH_SIZE, 0>>, <<0, PATCH_SIZE>>, <<PATCH_SIZE, PATCH_SIZE>>)

\* indices.clear() and the two RecursGenIndices walks; indices is the list
\* the call finds
GeneratedIndices(indices, m, p) ==
  RecursGenIndices(m, BaseLeftOf(p),
                   <<0, PATCH_SIZE>>, <<PATCH_SIZE, 0>>, <<0, 0>>)
  \o RecursGenIndices(m, BaseRightOf(p),
                      <<PATCH_SIZE, 0>>, <<0, PATCH_SIZE>>, <<PATCH_SIZE, PATCH_SIZE>>)

GenerateIndices(shadowPass, p) ==
  /\ ~initCall.active
  /\ \A w \in Threads : walk[w].state # "running"
  /\ \/ phase[shadowPass] = "tess" /\ p = MinOf(PatchIds)
     \/ phase[shadowPass] = "gen" /\ p = MinOf(todo[shadowPass])
  /\ LET left == (IF phase[shadowPass] = "tess" THEN PatchIds ELSE todo[shadowPass]) \ {p}
     IN  /\ patches' = [patches EXCEPT ![shadowPass][p].indices =
                          GeneratedIndices(@, mem[shadowPass], p)]
         /\ IF left = {}
            THEN /\ phase' = [phase EXCEPT ![shadowPass] = "idle"]
                 /\ todo' = [todo EXCEPT ![shadowPass] = {}]
            ELSE /\ phase' = [phase EXCEPT ![shadowPass] = "gen"]
                 /\ todo' = [todo EXCEPT ![shadowPass] = left]
         /\ history' = IF history[shadowPass][p].current THEN history
                        ELSE [history EXCEPT ![shadowPass][p] = NoHistory]
         /\ lastCall' = [NoCall EXCEPT
              !.op = "GenerateIndices", !.shadowPass = shadowPass, !.p = p,
              !.indices = patches[shadowPass][p].indices]
  /\ UNCHANGED <<CUR_POOL_SIZE, MAX_POOL_SIZE, pools, mem, memLimit, initCall,
                 issued, walk>>

\* Patch::GenerateBorderVertices, called between two update cycles, when the
\* trees of the last cycle are in place
GenerateBorderVertices(shadowPass, p) ==
  /\ OthersQuiet(shadowPass)
  /\ phase[shadowPass] = "idle"
  /\ patches' = [patches EXCEPT ![shadowPass][p] =
       IF ~@.isTesselated THEN @
       ELSE [@ EXCEPT !.isTesselated = FALSE,
                      !.borderVertices =
                         GeneratedBorderVertices(
                           mem[shadowPass], patches[shadowPass][p].vertices, p)]]
  /\ lastCall' = [NoCall EXCEPT
       !.op = "GenerateBorderVertices", !.shadowPass = shadowPass, !.p = p,
       !.borderVertices = patches[shadowPass][p].borderVertices,
       !.wasTesselated = patches[shadowPass][p].isTesselated]
  /\ UNCHANGED <<CUR_POOL_SIZE, MAX_POOL_SIZE, pools, mem, memLimit, initCall,
                 phase, todo, history, issued, walk>>

\* the steps of the passes in passSet, with Tessellate called on the tiles
\* of visible and with the inputs of views
NextWith(passSet, visible, views) ==
  \/ \E ps \in passSet : InitPools(ps)
  \/ InitPoolsRetry
  \/ \E ps \in passSet, p \in PatchIds : ComputeVariance(ps, p)
  \/ \E ps \in passSet : ResetAll(ps)
  \/ \E ps \in passSet, p \in PatchIds : PatchReset(ps, p)
  \/ \E ps \in passSet, p \in visible, w \in Threads, view \in views :
       Tessellate(ps, p, w, view)
  \/ \E ps \in passSet, p \in PatchIds : GenerateIndices(ps, p)

(***************************************************************************)
(* Spec: the main pass alone (no shadows), every tile, every input.        *)
(***************************************************************************)
Init == InitWith(HeightFields, MemLimits)

Next == NextWith({0}, PatchIds, Views)

Spec == Init /\ [][Next]_vars

(***************************************************************************)
(* SpecWorkers: the update cycle with Tessellate run by the worker threads *)
(* (for_mt over the tiles): the calls of the workers interleave at their   *)
(* RecursTessellate calls.                                                 *)
(***************************************************************************)
WorkerFields == {PeakField}

WorkerViews == {<<0, 1000>>, <<1, 15>>}

WorkerMemLimits == {1000, 12}

InitWorkers == InitWith(WorkerFields, WorkerMemLimits)

NextWorkers ==
  \/ \E ps \in {0} : InitPools(ps)
  \/ InitPoolsRetry
  \/ \E ps \in {0}, p \in PatchIds : ComputeVariance(ps, p)
  \/ \E ps \in {0} : ResetAll(ps)
  \/ \E ps \in {0}, p \in PatchIds : PatchReset(ps, p)
  \/ \E ps \in {0}, p \in PatchIds, w \in Threads, view \in WorkerViews :
       BeginTessellate(ps, p, w, view)
  \/ \E w \in Threads : StepTessellate(w)
  \/ \E w \in Threads : EndTessellate(w)
  \/ \E ps \in {0}, p \in PatchIds : GenerateIndices(ps, p)

SpecWorkers == InitWorkers /\ [][NextWorkers]_vars


(***************************************************************************)
(* SpecHeights: height map updates and the variance passes that follow     *)
(* them; a pass starts from the arrays the pass before left.               *)
(***************************************************************************)
\* the rectangles UpdateHeightMap is called with: the tile, and its
\* upper-left quadrant
UpdateRects ==
  {<<0..PATCH_SIZE, 0..PATCH_SIZE>>,
   <<0..(PATCH_SIZE \div 2), 0..(PATCH_SIZE \div 2)>>}

\* the height maps the updates copy from
UpdateMaps == {FlatField, HillField, PeakField, ShoreField}

InitHeights == InitWith({FlatField, CornerField}, {1000})

NextHeights ==
  \/ \E ps \in {0} : InitPools(ps)
  \/ \E ps \in {0}, p \in PatchIds, hMap \in UpdateMaps, rect \in UpdateRects :
       UpdateHeightMap(ps, p, hMap, rect)
  \/ \E ps \in {0}, p \in PatchIds : ComputeVariance(ps, p)

SpecHeights == InitHeights /\ [][NextHeights]_vars

(***************************************************************************)
(* SpecViews: the update cycle of the main pass with the camera on the     *)
(* tile, near it and far from it, and with tiny and ordinary view radii.   *)
(***************************************************************************)
\* a camera a hundred tile widths away
VeryDistant == 100 * PATCH_SIZE

\* the smallest view radius above zero
TinyRadius == PATCH_SIZE \div 4

TessViews ==
  {<<0, TinyRadius>>, <<100, TinyRadius>>, <<VeryDistant, 10>>, <<1, 15>>}

InitViews == InitWith(HeightFields, {1000, 2})

NextViews == NextWith({0}, PatchIds, TessViews)

SpecViews == InitViews /\ [][NextViews]_vars

(***************************************************************************)
(* SpecBorders: the update cycle of the main pass with the border skirts   *)
(* generated between two cycles.                                           *)
(***************************************************************************)
\* the tiles in view: Tessellate is called on these, the others stay un-split
BorderVisible == {1}

InitBorders == InitWith(HeightFields, MemLimits)

NextBorders ==
  \/ NextWith({0}, BorderVisible, Views)
  \/ \E ps \in {0}, p \in PatchIds : GenerateBorderVertices(ps, p)

SpecBorders == InitBorders /\ [][NextBorders]_vars

(***************************************************************************)
(* SpecMesh: the update cycle of the main pass on height fields that make  *)
(* the walk split some triangles of a level and not the ones beside them.  *)
(***************************************************************************)
MeshFields == {RidgeField, CornerField}

InitMesh == InitWith(MeshFields, {1000, 12})

NextMesh == NextWith({0}, PatchIds, Views)

SpecMesh == InitMesh /\ [][NextMesh]_vars

(***************************************************************************)
(* SpecPasses: the update cycles of the main pass and of the shadow pass,  *)
(* one after the other in any order, on one shared CUR_POOL_SIZE and       *)
(* MAX_POOL_SIZE.                                                          *)
(***************************************************************************)
PassFields == {PeakField}

\* the tile in view
PassVisible == {1}

\* the camera on the tile, and far from it
PassViews == {<<0, 1000>>, <<100, 1>>}

InitPasses == InitWith(PassFields, {1000, 12})

NextPasses == NextWith(Passes, PassVisible, PassViews)

SpecPasses == InitPasses /\ [][NextPasses]_vars

(***************************************************************************)
(* Properties.  The Split, Allocate and walk records of lastCall are those *)
(* of the Tessellate call the last step made.                              *)
(***************************************************************************)
\* P holds of every Split call of the Tessellate call of the last step
AllSplits(P(_)) == \A i \in DOMAIN lastCall.splits : P(lastCall.splits[i])

SomeSplit(P(_)) == \E i \in DOMAIN lastCall.splits : P(lastCall.splits[i])

\* node has no base neighbor and the outward references of its children are empty
EdgeCleared(r) ==
  /\ r.post.BaseNeighbor = NULL
  /\ IsBranch(r.post)
  /\ r.lc.RightNeighbor = NULL
  /\ r.rc.LeftNeighbor = NULL

\* node and its base neighbor are branches whose children are mutually linked
DiamondLinked(r) ==
  /\ r.post.BaseNeighbor # NULL
  /\ IsBranch(r.post)
  /\ IsBranch(r.bn)
  /\ r.lc.RightNeighbor = r.bn.RightChild
  /\ r.bnr.LeftNeighbor = r.post.LeftChild
  /\ r.rc.LeftNeighbor = r.bn.LeftChild
  /\ r.bnl.RightNeighbor = r.post.RightChild

\* C1: after every Split call that returns true, the node either has no base
\* neighbor and its children's outward references are empty, or it and its base
\* neighbor are branches whose children are mutually linked.
C1_SplitPostcondition ==
  AllSplits(LAMBDA r : r.ret => (EdgeCleared(r) \/ DiamondLinked(r)))

\* no branch of the memory m has a diamond partner that is still a leaf
NoHalfDiamond(m) ==
  \A q \in DOMAIN m :
    (IsBranch(m[q]) /\ m[q].BaseNeighbor # NULL /\ m[m[q].BaseNeighbor].BaseNeighbor = q)
      => IsBranch(m[m[q].BaseNeighbor])

\* C2: a Split call during which an allocation failed (for the node, for a
\* force-split base neighbor or for the diamond partner) returns false, and the
\* mesh has no branch whose diamond partner is still a leaf.  (Once the pool is
\* out of nodes no later call changes the mesh, so the mesh the call leaves is
\* the one Tessellate leaves.)
C2_FailurePropagates ==
  AllSplits(LAMBDA r :
    r.fail => (r.ret = FALSE /\ NoHalfDiamond(mem[lastCall.shadowPass])))

\* C3 as stated: a Split call that returns false leaves the node a leaf with the
\* base, left and right neighbor references it had before the call.
C3_FailedSplitLeavesNode ==
  AllSplits(LAMBDA r :
    r.ret = FALSE =>
      /\ IsLeaf(r.post)
      /\ r.post.BaseNeighbor = r.pre.BaseNeighbor
      /\ r.post.LeftNeighbor = r.pre.LeftNeighbor
      /\ r.post.RightNeighbor = r.pre.RightNeighbor)

\* the base neighbor the call found was force-split, and the node now borders
\* one of its children
BaseMovedToChild(r) ==
  /\ r.pre.BaseNeighbor # NULL
  /\ IsBranch(r.pbn)
  /\ r.post.BaseNeighbor \in {r.pbn.LeftChild, r.pbn.RightChild}

\* C3 amended: a Split call that returns false leaves the node a leaf with the
\* left and right neighbor references it had; its base neighbor reference is
\* the one it had, or a child of that neighbor when the neighbor was force-split.
C3_FailedSplitLeavesLeaf ==
  AllSplits(LAMBDA r :
    r.ret = FALSE =>
      /\ IsLeaf(r.post)
      /\ r.post.LeftNeighbor = r.pre.LeftNeighbor
      /\ r.post.RightNeighbor = r.pre.RightNeighbor
      /\ (r.post.BaseNeighbor = r.pre.BaseNeighbor \/ BaseMovedToChild(r)))

\* a Split call returned false after its base neighbor had been force-split
C3_Witness ==
  SomeSplit(LAMBDA r :
    r.ret = FALSE /\ r.post.BaseNeighbor # r.pre.BaseNeighbor /\ BaseMovedToChild(r))

(***************************************************************************)
(* ResetAll, Reset and Allocate.                                           *)
(***************************************************************************)
\* the last step was a ResetAll call that has returned (no retry is pending)
ResetAllReturned == lastCall.op = "ResetAll" /\ ~initCall.active

\* the pools of the pass ResetAll was called on
ResetPools == pools[lastCall.shadowPass]

\* ResetAll found a pool out of nodes with the target size c below the cap
GrowthDue(cap) == lastCall.outOfNodes /\ lastCall.cur < cap

\* C4 as stated, the cap being 8 times the original request: every cursor is
\* zero; when a pool was out of nodes and the target was below the cap the
\* target is min(2 * target, cap) and every pool is built for it; when no pool
\* was out of nodes the target and the capacities are as before; the target
\* never exceeds the cap.
C4_ResetAllDoubles ==
  /\ CUR_POOL_SIZE <= 8 * NEW_POOL_SIZE
  /\ ResetAllReturned =>
       /\ \A w \in DOMAIN ResetPools : ResetPools[w].nextTriNodeIdx = 0
       /\ GrowthDue(8 * NEW_POOL_SIZE) =>
            /\ CUR_POOL_SIZE = Min(2 * lastCall.cur, 8 * NEW_POOL_SIZE)
            /\ \A w \in DOMAIN ResetPools : ResetPools[w].size = ThrPoolSize(CUR_POOL_SIZE)
       /\ ~lastCall.outOfNodes =>
            /\ CUR_POOL_SIZE = lastCall.cur
            /\ [w \in DOMAIN ResetPools |-> ResetPools[w].size] = lastCall.sizes

\* C4 amended: the cap is MAX_POOL_SIZE, which starts at 8 times the original
\* request and is lowered when building pools fails.  Every cursor is zero;
\* when a pool was out of nodes and the target was below MAX_POOL_SIZE, the
\* target is min(2 * target, MAX_POOL_SIZE) if the pools could be built for
\* it, and otherwise target and MAX_POOL_SIZE both end below that, at a size
\* the pools could be built for; the pools are built for the new target.  In
\* every other case target, cap and capacities are as before.  The target
\* never exceeds 8 times the original request.
C4_ResetAllGrowsToCap ==
  /\ CUR_POOL_SIZE <= 8 * NEW_POOL_SIZE
  /\ ResetAllReturned =>
       /\ \A w \in DOMAIN ResetPools : ResetPools[w].nextTriNodeIdx = 0
       /\ IF GrowthDue(lastCall.max)
          THEN /\ IF lastCall.retried
                  THEN /\ CUR_POOL_SIZE = MAX_POOL_SIZE
                       /\ CUR_POOL_SIZE < Min(2 * lastCall.cur, lastCall.max)
                  ELSE /\ CUR_POOL_SIZE = Min(2 * lastCall.cur, lastCall.max)
                       /\ MAX_POOL_SIZE = lastCall.max
               /\ \A w \in Threads : ResetPools[w].size = ThrPoolSize(CUR_POOL_SIZE)
          ELSE /\ CUR_POOL_SIZE = lastCall.cur
               /\ MAX_POOL_SIZE = lastCall.max
               /\ [w \in DOMAIN ResetPools |-> ResetPools[w].size] = lastCall.sizes

\* ResetAll found a pool out of nodes, and building the doubled pools failed
C4_Witness ==
  ResetAllReturned /\ GrowthDue(lastCall.max) /\ lastCall.retried
    /\ CUR_POOL_SIZE > lastCall.cur

\* the nodes the Allocate calls before the i-th one of the last Tessellate
\* handed out, with those the pool had handed out before that Tessellate
IssuedBefore(i) ==
  lastCall.issued \cup
    UNION {{lastCall.allocs[j].left, lastCall.allocs[j].right} : j \in 1..(i - 1)}

\* C5: every Allocate call either succeeds, returning two distinct nodes of the
\* pool, neither handed out since the pool's last Reset, with the cursor
\* advanced by exactly two; or the pool was out of nodes, both outputs are
\* empty and the cursor is unchanged.  It never hands out one node only.
C5_AllocatePair ==
  \A i \in DOMAIN lastCall.allocs :
    LET a == lastCall.allocs[i]
    IN  /\ a.ok <=> ~OutOfNodes(a.before)
        /\ a.ok =>
             /\ a.left # a.right
             /\ {a.left, a.right} \subseteq {a.w} \X (0..(a.before.size - 1))
             /\ {a.left, a.right} \cap IssuedBefore(i) = {}
             /\ a.after = [a.before EXCEPT !.nextTriNodeIdx = @ + 2]
        /\ ~a.ok => (a.left = NULL /\ a.right = NULL /\ a.after = a.before)

\* a Tessellate call on a pool already in use got nodes and then ran out
C5_Witness ==
  /\ lastCall.issued # {}
  /\ \E i, j \in DOMAIN lastCall.allocs :
       i < j /\ lastCall.allocs[i].ok /\ ~lastCall.allocs[j].ok

\* C6: after Reset the cursor is zero and every node the pool had handed out
\* has all its references empty; the first Allocate after a Reset returns the
\* nodes 0 and 1 of the pool.
C6_ResetClears ==
  /\ ResetAllReturned =>
       \A w \in DOMAIN ResetPools :
         /\ ResetPools[w].nextTriNodeIdx = 0
         /\ \A q \in DOMAIN mem[lastCall.shadowPass] :
              (q[1] = w /\ w \in DOMAIN lastCall.cursors /\ q[2] < lastCall.cursors[w])
                => mem[lastCall.shadowPass][q] = ZeroNode
  /\ (lastCall.op = "Tessellate" /\ lastCall.issued = {} /\ lastCall.allocs # <<>>) =>
       /\ lastCall.allocs[1].ok
       /\ lastCall.allocs[1].left = PoolNode(lastCall.w, 0)
       /\ lastCall.allocs[1].right = PoolNode(lastCall.w, 1)

\* ResetAll has reset, and not rebuilt, a pool that had handed out nodes
C6_Witness ==
  /\ ResetAllReturned
  /\ CUR_POOL_SIZE = lastCall.cur
  /\ \E w \in DOMAIN lastCall.cursors : lastCall.cursors[w] > 0

(***************************************************************************)
(* Tessellate and GenerateIndices.                                         *)
(***************************************************************************)
\* the last step was GenerateIndices on a tile that this cycle and the cycle
\* before tessellated with the same camera distance and view radius
SameInputsTwice ==
  /\ lastCall.op = "GenerateIndices"
  /\ history[lastCall.shadowPass][lastCall.p].current
  /\ history[lastCall.shadowPass][lastCall.p].same

SomeSplitFailed == \E i \in DOMAIN lastCall.allocs : ~lastCall.allocs[i].ok

\* C8 as stated: Tessellate returns false exactly when a Split requested while
\* walking the tile failed for lack of pool nodes.
C8_FalseIffSplitFailed ==
  lastCall.op = "Tessellate" => (lastCall.ret = FALSE <=> SomeSplitFailed)

\* C8 amended: Tessellate returns false exactly when the worker's pool is out
\* of nodes when the walk ends; it returns false whenever a Split of the walk
\* failed for lack of pool nodes.
C8_FalseIffPoolOutOfNodes ==
  lastCall.op = "Tessellate" =>
    /\ lastCall.ret = FALSE <=> OutOfNodes(pools[lastCall.shadowPass][lastCall.w])
    /\ SomeSplitFailed => lastCall.ret = FALSE

\* Tessellate returned false although every Split it requested succeeded
C8_Witness ==
  lastCall.op = "Tessellate" /\ lastCall.ret = FALSE /\ ~SomeSplitFailed
    /\ lastCall.allocs # <<>>

\* the scaled error of the visited node v as the fraction <<num, den>>, from
\* the members of the tile the last Tessellate call was made on
ScaledError(v) ==
  LET pt == patches[lastCall.shadowPass][lastCall.p]
      cv == IF v.side = "L" THEN pt.varianceLeft ELSE pt.varianceRight
  IN  IF v.node < Pow2(VARIANCE_DEPTH)
      THEN <<Min(cv[v.node], pt.varianceMaxLimit) * PATCH_SIZE
               * TriSize(v.left, v.right) * pt.camDistLODFactor[1],
             pt.camDistLODFactor[2]>>
      ELSE <<10 * VarScale, 1>>

\* C9 as stated: the walk calls Split on a visited node exactly when its scaled
\* error is at or above the threshold 1.
C9_SplitAtOrAboveThreshold ==
  \A i \in DOMAIN lastCall.visits :
    LET v == lastCall.visits[i]
        e == ScaledError(v)
    IN  v.called <=> e[1] >= VarScale * e[2]

\* C9 amended: the walk calls Split on a visited node exactly when its scaled
\* error is strictly above the threshold 1; at the threshold it stops.
C9_SplitAboveThreshold ==
  \A i \in DOMAIN lastCall.visits :
    LET v == lastCall.visits[i]
        e == ScaledError(v)
    IN  v.called <=> e[1] > VarScale * e[2]

\* the walk stopped at a node whose scaled error is exactly the threshold
C9_Witness ==
  \E i \in DOMAIN lastCall.visits :
    LET v == lastCall.visits[i]
        e == ScaledError(v)
    IN  ~v.called /\ e[1] = VarScale * e[2]

\* the last step was Tessellate on a flat tile with the camera at its centre
\* and a view radius whose ceiling does not bind
FlatCloseUp ==
  /\ lastCall.op = "Tessellate"
  /\ patches[lastCall.shadowPass][lastCall.p].vertices = FlatField
  /\ patches[lastCall.shadowPass][lastCall.p].camDistLODFactor = <<1, 1>>
  /\ patches[lastCall.shadowPass][lastCall.p].varianceMaxLimit >= VarScale

OwnMemory(w) ==
  [q \in DOMAIN walk[w].sequential.m |-> mem[walk[w].shadowPass][q]]

\* the nodes a node points to
Pointees(n) ==
  {n.LeftChild, n.RightChild, n.BaseNeighbor, n.LeftNeighbor, n.RightNeighbor}
    \ {NULL}

\* C11: for every interleaving of the Tessellate calls of different workers
\* on different tiles, a call writes only the roots of its tile, nodes of the
\* pool of the calling worker and the cursor of that pool; no node and no
\* cursor is written by two workers; the nodes a call has written point only
\* to nodes the call may write, so that no step of a call reads what another
\* worker writes; and when a call has returned, its tree and its pool are
\* what the call leaves when it runs alone.
C11_WorkerIsolation ==
  \A w \in Threads :
    walk[w].state # "idle" =>
      /\ walk[w].written \subseteq DOMAIN walk[w].sequential.m
      /\ \A q \in walk[w].written :
           Pointees(mem[walk[w].shadowPass][q]) \subseteq DOMAIN walk[w].sequential.m
      /\ walk[w].cursors \subseteq {w}
      /\ \A v \in Threads \ {w} :
           walk[v].state # "idle" =>
             /\ walk[v].written \cap walk[w].written = {}
             /\ walk[v].cursors \cap walk[w].cursors = {}
      /\ walk[w].state = "returned" =>
           /\ OwnMemory(w) = walk[w].sequential.m
           /\ pools[walk[w].shadowPass][w] = walk[w].sequential.pool

\* a call that split triangles while another worker was splitting has returned
C11_Witness ==
  \E w \in Threads, v \in Threads :
    /\ v # w
    /\ walk[w].state = "returned"
    /\ walk[w].overlapped
    /\ \E q \in walk[w].written : q[1] = w
    /\ walk[v].state # "idle"
    /\ walk[v].overlapped
    /\ \E q \in walk[v].written : q[1] = v


(***************************************************************************)
(* C12.  The stored error of a node is at least that of its children.      *)
(***************************************************************************)
\* array cv holds at every node with stored children at least what it holds
\* at the children
Monotone(cv) ==
  \A n \in 1..(Pow2(VARIANCE_DEPTH) - 1) :
    2 * n + 1 < Pow2(VARIANCE_DEPTH) => cv[n] >= cv[2 * n] /\ cv[n] >= cv[2 * n + 1]

\* C12: after ComputeVariance on any height field, in both variance arrays
\* of the tile, every node n whose children 2n and 2n+1 are stored holds an
\* error greater than or equal to the error of 2n and of 2n+1.
C12_ParentAtLeastChildren ==
  \A ps \in Passes, p \in PatchIds :
    ~patches[ps][p].isDirty =>
      /\ Monotone(patches[ps][p].varianceLeft)
      /\ Monotone(patches[ps][p].varianceRight)

\* a variance pass over an updated height map has left a root that holds the
\* error of one child, above the error of the other
C12_Witness ==
  /\ lastCall.op = "ComputeVariance"
  /\ \E cv \in {patches[lastCall.shadowPass][lastCall.p].varianceLeft} :
       /\ cv[1] = cv[2]
       /\ cv[2] > cv[3]
       /\ cv[3] > MinVariance


(***************************************************************************)
(* C14.  No stored variance is zero.                                       *)
(***************************************************************************)
\* every entry of array cv that the tessellation walk can read is at least
\* the clamped minimum, which is above zero
AllPositive(cv) ==
  \A i \in 1..(Pow2(VARIANCE_DEPTH) - 1) : cv[i] >= MinVariance /\ cv[i] > 0

\* C14: once ComputeVariance has run on a tile, every value of its two
\* variance arrays at an index 1 <= index < 2^D is strictly greater than zero
\* (at least the clamped minimum 0.001), for every height field, a perfectly
\* flat one included.
C14_VariancePositive ==
  \A ps \in Passes, p \in PatchIds :
    ~patches[ps][p].isDirty =>
      /\ AllPositive(patches[ps][p].varianceLeft)
      /\ AllPositive(patches[ps][p].varianceRight)

\* a variance pass has run over a tile of level ground
C14_Witness ==
  /\ lastCall.op = "ComputeVariance"
  /\ history[lastCall.shadowPass][lastCall.p] = NoHistory
  /\ \E pt \in {patches[lastCall.shadowPass][lastCall.p]} :
       /\ pt.vertices = FlatField
       /\ \A i \in 1..(Pow2(VARIANCE_DEPTH) - 1) :
            pt.varianceLeft[i] = MinVariance /\ pt.varianceRight[i] = MinVariance
       /\ pt.varianceLeft[0] = 0


(***************************************************************************)
(* C13.  The pool invariant.                                               *)
(***************************************************************************)
\* C13: every pool that InitPools has constructed, after any sequence of
\* Allocate and Reset calls, has an even capacity greater than zero and an
\* even cursor with 0 <= cursor <= capacity.
C13_PoolInvariant ==
  \A ps \in Passes :
    \A w \in DOMAIN pools[ps] :
      /\ pools[ps][w].size % 2 = 0
      /\ pools[ps][w].size > 0
      /\ pools[ps][w].nextTriNodeIdx % 2 = 0
      /\ 0 <= pools[ps][w].nextTriNodeIdx
      /\ pools[ps][w].nextTriNodeIdx <= pools[ps][w].size

\* a pool that the bad_alloc handler's retry has constructed, allocated from
\* until its cursor reached the capacity
C13_Witness ==
  /\ lastCall.op = "Tessellate"
  /\ MAX_POOL_SIZE < NEW_POOL_SIZE * 8
  /\ \E pool \in {pools[lastCall.shadowPass][lastCall.w]} :
       /\ pool.nextTriNodeIdx = pool.size
       /\ pool.size = ThrPoolSize(CUR_POOL_SIZE)
       /\ lastCall.allocs # <<>>


(***************************************************************************)
(* C16.  The retry of a failed pool construction.                          *)
(***************************************************************************)
\* C16: when the construction of the pools fails for a requested size (which
\* InitPools has stored in CUR_POOL_SIZE), the retry that the handler makes
\* requests a strictly smaller size, so that a sequence of failures ends.
C16_RetryStrictlySmaller ==
  initCall.active => initCall.newPoolSize < CUR_POOL_SIZE


(***************************************************************************)
(* C17.  A node has both children or none.                                 *)
(***************************************************************************)
\* node n has both child references or neither
BothOrNone(n) == (n.LeftChild = NULL) <=> (n.RightChild = NULL)

\* C17: in every reachable state every node, the two roots of each tile and
\* every pool node, has either no child reference or both; the same holds of
\* a node when a Split call on it returns; and an Allocate that succeeds
\* hands out two nodes, one that fails none, so that the node is a branch
\* right after a successful Allocate.
C17_BothChildrenOrNone ==
  /\ \A ps \in Passes : \A q \in DOMAIN mem[ps] : BothOrNone(mem[ps][q])
  /\ AllSplits(LAMBDA r : BothOrNone(r.post) /\ BothOrNone(r.bn))
  /\ \A i \in DOMAIN lastCall.allocs :
       /\ lastCall.allocs[i].ok <=> lastCall.allocs[i].left # NULL
       /\ lastCall.allocs[i].ok <=> lastCall.allocs[i].right # NULL

\* a Tessellate call in which one Allocate succeeded and a later one failed
\* has left a root and a pool node that are branches
C17_Witness ==
  /\ lastCall.op = "Tessellate"
  /\ \E i, j \in DOMAIN lastCall.allocs :
       i < j /\ lastCall.allocs[i].ok /\ ~lastCall.allocs[j].ok
  /\ \E q \in DOMAIN mem[lastCall.shadowPass] :
       q \notin Roots /\ IsBranch(mem[lastCall.shadowPass][q])
  /\ IsBranch(mem[lastCall.shadowPass][BaseLeftOf(lastCall.p)])


(***************************************************************************)
(* C15.  No splits for a distant camera or a tiny view radius.             *)
(***************************************************************************)
\* the Tessellate call of the last step made no Split call and left both
\* roots of its tile leaves
ZeroSplits ==
  /\ lastCall.splits = <<>>
  /\ IsLeaf(mem[lastCall.shadowPass][BaseLeftOf(lastCall.p)])
  /\ IsLeaf(mem[lastCall.shadowPass][BaseRightOf(lastCall.p)])

\* C15 as stated: Tessellate performs zero splits whenever the camera is
\* very distant, and whenever the view radius is tiny, for any height field
\* and, in the second case, any camera position.
C15_ZeroSplitsDistantOrTiny ==
  (/\ lastCall.op = "Tessellate"
   /\ lastCall.view[1] >= VeryDistant \/ lastCall.view[2] <= TinyRadius)
    => ZeroSplits

\* 0.35 * viewRadius * PATCH_SIZE * PATCH_SIZE * viewRadius / (300 * dist) <= 1:
\* the variance ceiling, scaled as at a root, is not above the threshold
DistantForRadius(view) ==
  35 * view[2] * view[2] * PATCH_SIZE * PATCH_SIZE <= 100 * 300 * view[1]

\* C15 amended: Tessellate performs zero splits, for any height field,
\* whenever the camera distance is large for the view radius, that is when
\* 0.35 * viewRadius^2 * PATCH_SIZE^2 <= 300 * distance; a tiny view radius
\* gives zero splits only from such a distance on.
C15_ZeroSplitsDistantForRadius ==
  (lastCall.op = "Tessellate" /\ DistantForRadius(lastCall.view)) => ZeroSplits

\* a tile with a shore line, tessellated with a tiny view radius by a camera
\* away from it, and one tessellated from very far: both walks asked at the
\* root and made no split
C15_Witness ==
  /\ lastCall.op = "Tessellate"
  /\ lastCall.view = <<VeryDistant, 10>>
  /\ history[lastCall.shadowPass][1].view = <<100, TinyRadius>>
  /\ history[lastCall.shadowPass][1].current
  /\ lastCall.p = 2
  /\ patches[lastCall.shadowPass][lastCall.p].vertices = ShoreField
  /\ Len(lastCall.visits) = 2
  /\ \A q \in Roots : IsLeaf(mem[lastCall.shadowPass][q])


(***************************************************************************)
(* C18.  The index list of GenerateIndices.                                *)
(***************************************************************************)
\* the number of leaves of the tree under tri
RECURSIVE LeafCount(_, _)
LeafCount(m, tri) ==
  IF m[tri].LeftChild = NULL /\ m[tri].RightChild = NULL
  THEN 1
  ELSE LeafCount(m, m[tri].LeftChild) + LeafCount(m, m[tri].RightChild)

\* the grid position of vertex index i
VertexAt(i) == <<i % (PATCH_SIZE + 1), i \div (PATCH_SIZE + 1)>>

\* twice the signed area of the triangle a, l, r
Cross(a, l, r) ==
  (l[1] - a[1]) * (r[2] - a[2]) - (l[2] - a[2]) * (r[1] - a[1])

\* a, l, r is a triangle with its right angle at a, legs of equal length, and
\* the orientation of the two roots
ApexLeftRight(a, l, r) ==
  /\ (l[1] - a[1]) * (r[1] - a[1]) + (l[2] - a[2]) * (r[2] - a[2]) = 0
  /\ (l[1] - a[1]) * (l[1] - a[1]) + (l[2] - a[2]) * (l[2] - a[2])
       = (r[1] - a[1]) * (r[1] - a[1]) + (r[2] - a[2]) * (r[2] - a[2])
  /\ Cross(a, l, r) < 0

\* twice the area of the triangles k..n of index list ix
RECURSIVE DoubleArea(_, _, _)
DoubleArea(ix, k, n) ==
  IF k > n THEN 0
  ELSE DoubleArea(ix, k + 1, n)
       - Cross(VertexAt(ix[3 * k - 2]), VertexAt(ix[3 * k - 1]), VertexAt(ix[3 * k]))

\* ix holds three indices per leaf of the two trees of tile p, each in the
\* vertex grid, each triple in apex-left-right order, the triangles filling
\* the tile
IndexListOf(ix, m, p) ==
  /\ Len(ix) = 3 * (LeafCount(m, BaseLeftOf(p)) + LeafCount(m, BaseRightOf(p)))
  /\ \A i \in DOMAIN ix : ix[i] \in 0..((PATCH_SIZE + 1) * (PATCH_SIZE + 1) - 1)
  /\ \A k \in 1..(Len(ix) \div 3) :
       ApexLeftRight(VertexAt(ix[3 * k - 2]), VertexAt(ix[3 * k - 1]),
                     VertexAt(ix[3 * k]))
  /\ DoubleArea(ix, 1, Len(ix) \div 3) = 2 * PATCH_SIZE * PATCH_SIZE

\* C18: GenerateIndices replaces the index list of the tile with exactly
\* three indices per leaf of the tile's two trees, in apex-left-right order
\* for each leaf, each index within the (S+1)*(S+1) vertex grid; on a tile
\* whose two roots are leaves the list has exactly 6 indices.
C18_ThreeIndicesPerLeaf ==
  lastCall.op = "GenerateIndices" =>
    /\ IndexListOf(patches[lastCall.shadowPass][lastCall.p].indices,
                   mem[lastCall.shadowPass], lastCall.p)
    /\ (/\ IsLeaf(mem[lastCall.shadowPass][BaseLeftOf(lastCall.p)])
        /\ IsLeaf(mem[lastCall.shadowPass][BaseRightOf(lastCall.p)]))
         => Len(patches[lastCall.shadowPass][lastCall.p].indices) = 6

\* GenerateIndices has replaced the list of an earlier cycle by the list of a
\* tile with split triangles
C18_Witness ==
  /\ lastCall.op = "GenerateIndices"
  /\ lastCall.indices # <<>>
  /\ Len(patches[lastCall.shadowPass][lastCall.p].indices) > Len(lastCall.indices)
  /\ IsBranch(mem[lastCall.shadowPass][BaseRightOf(lastCall.p)])


(***************************************************************************)
(* C20.  The unmatched relink branches of Split.                           *)
(***************************************************************************)
\* C20: in every Split call that gets its child pair, in any sequence of
\* Tessellate calls on tiles that were Reset, calls that hit pool exhaustion
\* included, a non-empty left neighbor of the split node references the node
\* in its base, left or right slot, and so does a non-empty right neighbor:
\* the "illegal Left neighbor" and "illegal Right neighbor" branches are
\* never taken.
C20_NoIllegalNeighbor ==
  lastCall.op = "Tessellate" => AllSplits(LAMBDA r : ~r.illegal)

\* a Tessellate call that ran out of nodes had before split a triangle with
\* a left and a right neighbor
C20_Witness ==
  /\ lastCall.op = "Tessellate"
  /\ ~lastCall.ret
  /\ SomeSplit(LAMBDA r : /\ IsLeaf(r.pre) /\ IsBranch(r.post)
                          /\ r.pre.LeftNeighbor # NULL
                          /\ r.pre.RightNeighbor # NULL
                          /\ ~r.illegal)
  /\ SomeSplit(LAMBDA r : r.fail /\ ~r.ret)


(***************************************************************************)
(* C19.  The border skirts of GenerateBorderVertices.                      *)
(***************************************************************************)
\* the leaves under tri as triangles <<apex, left, rght>>
RECURSIVE LeafTriangles(_, _, _, _, _)
LeafTriangles(m, tri, left, rght, apex) ==
  IF m[tri].LeftChild = NULL /\ m[tri].RightChild = NULL
  THEN {<<apex, left, rght>>}
  ELSE LeafTriangles(m, m[tri].LeftChild, apex, left,
                     <<(left[1] + rght[1]) \div 2, (left[2] + rght[2]) \div 2>>)
       \cup LeafTriangles(m, m[tri].RightChild, rght, apex,
                          <<(left[1] + rght[1]) \div 2, (left[2] + rght[2]) \div 2>>)

\* the leaves of the two trees of tile p
TileLeaves(m, p) ==
  LeafTriangles(m, BaseLeftOf(p), <<0, PATCH_SIZE>>, <<PATCH_SIZE, 0>>, <<0, 0>>)
  \cup LeafTriangles(m, BaseRightOf(p), <<PATCH_SIZE, 0>>, <<0, PATCH_SIZE>>,
                     <<PATCH_SIZE, PATCH_SIZE>>)

\* the four borders of a tile: x = 0, z = 0, x = S, z = S
Borders == 1..4

\* grid position pos lies on border b
OnBorder(pos, b) ==
  \/ b = 1 /\ pos[1] = 0
  \/ b = 2 /\ pos[2] = 0
  \/ b = 3 /\ pos[1] = PATCH_SIZE
  \/ b = 4 /\ pos[2] = PATCH_SIZE

\* the edge (a set of two positions) lies on border b
EdgeOnBorder(e, b) == \A pos \in e : OnBorder(pos, b)

\* the edges of the leaves of tile p that lie on border b
BorderLeafEdges(m, p, b) ==
  {e \in UNION {{{t[1], t[2]}, {t[1], t[3]}, {t[2], t[3]}} : t \in TileLeaves(m, p)} :
     EdgeOnBorder(e, b)}

\* the k-th group of six border vertices is a skirt quad: its top edge runs
\* between two vertices of the tile at their heights, opaque, and its bottom
\* edge below them at the skirt depth, transparent
IsSkirtQuad(bv, k, vertices) ==
  \E a \in Grid, b \in Grid :
    /\ a # b
    /\ bv[6 * k - 5] = [pos |-> a, y |-> vertices[a], alpha |-> 255]
    /\ bv[6 * k - 4] = [pos |-> a, y |-> SkirtDepth, alpha |-> 0]
    /\ bv[6 * k - 3] = [pos |-> b, y |-> vertices[b], alpha |-> 255]
    /\ bv[6 * k - 2] = [pos |-> a, y |-> SkirtDepth, alpha |-> 0]
    /\ bv[6 * k - 1] = [pos |-> b, y |-> SkirtDepth, alpha |-> 0]
    /\ bv[6 * k] = [pos |-> b, y |-> vertices[b], alpha |-> 255]

\* the top edge of the k-th quad
TopEdge(bv, k) == {bv[6 * k - 5].pos, bv[6 * k - 3].pos}

\* edge e, on a border, covers the unit piece from u to u + 1 of it
Covers(e, u) ==
  \A i \in 1..2 :
    (\E a \in e, b \in e : a[i] # b[i]) =>
      /\ \E a \in e : a[i] <= u
      /\ \E b \in e : b[i] >= u + 1

\* bv is the skirt of tile p: groups of six vertices, each a skirt quad with
\* its top edge on a border; on each border one quad for each leaf edge on
\* it and no other; the quads of a border cover it from 0 to S, every piece
\* once
SkirtOf(bv, m, vertices, p) ==
  /\ Len(bv) % 6 = 0
  /\ \A k \in 1..(Len(bv) \div 6) :
       /\ IsSkirtQuad(bv, k, vertices)
       /\ \E b \in Borders : EdgeOnBorder(TopEdge(bv, k), b)
  /\ \A b \in Borders :
       /\ {TopEdge(bv, k) : k \in {i \in 1..(Len(bv) \div 6) :
                                     EdgeOnBorder(TopEdge(bv, i), b)}}
            = BorderLeafEdges(m, p, b)
       /\ \A u \in 0..(PATCH_SIZE - 1) :
            Cardinality({k \in 1..(Len(bv) \div 6) :
                           /\ EdgeOnBorder(TopEdge(bv, k), b)
                           /\ Covers(TopEdge(bv, k), u)}) = 1
  /\ Len(bv) \div 6
       = Cardinality(BorderLeafEdges(m, p, 1)) + Cardinality(BorderLeafEdges(m, p, 2))
         + Cardinality(BorderLeafEdges(m, p, 3)) + Cardinality(BorderLeafEdges(m, p, 4))

\* C19: on each of the four borders of a tile (no base triangle has an
\* outward neighbor), GenerateBorderVertices run after a Tessellate emits
\* exactly one skirt quad of 6 vertices per leaf edge on that border, the top
\* edge of every quad lies on the border, and the quads of one border cover
\* it from 0 to S without gap or overlap, for every tree Tessellate leaves;
\* without a Tessellate since the last generation the list is unchanged.
C19_SkirtPerBorderLeaf ==
  lastCall.op = "GenerateBorderVertices" =>
    IF lastCall.wasTesselated
    THEN /\ SkirtOf(patches[lastCall.shadowPass][lastCall.p].borderVertices,
                    mem[lastCall.shadowPass],
                    patches[lastCall.shadowPass][lastCall.p].vertices, lastCall.p)
         /\ ~patches[lastCall.shadowPass][lastCall.p].isTesselated
    ELSE patches[lastCall.shadowPass][lastCall.p].borderVertices
           = lastCall.borderVertices

\* the skirt of an earlier cycle has been replaced by one with more quads
\* than the four of an un-split tile, of different widths
C19_Witness ==
  /\ lastCall.op = "GenerateBorderVertices"
  /\ lastCall.wasTesselated
  /\ lastCall.borderVertices # <<>>
  /\ \E bv \in {patches[lastCall.shadowPass][lastCall.p].borderVertices} :
       /\ Len(bv) > 24
       /\ \E k \in 1..(Len(bv) \div 6), u \in 0..(PATCH_SIZE - 2) :
            Covers(TopEdge(bv, k), u) /\ Covers(TopEdge(bv, k), u + 1)
       /\ \E k \in 1..(Len(bv) \div 6), u \in 1..(PATCH_SIZE - 1) :
            Covers(TopEdge(bv, k), u) /\ ~Covers(TopEdge(bv, k), u - 1)
                                      /\ ~Covers(TopEdge(bv, k), u + 1)


(***************************************************************************)
(* C21.  The mesh of a tile is restricted: no T-junction.                  *)
(***************************************************************************)
\* the leaves under tri with their levels, as pairs <<node, level>>
RECURSIVE LeafLevels(_, _, _)
LeafLevels(m, tri, level) ==
  IF m[tri].LeftChild = NULL /\ m[tri].RightChild = NULL
  THEN {<<tri, level>>}
  ELSE LeafLevels(m, m[tri].LeftChild, level + 1)
       \cup LeafLevels(m, m[tri].RightChild, level + 1)

\* the leaves of the two trees of tile p with their levels
TileLeafLevels(m, p) ==
  LeafLevels(m, BaseLeftOf(p), 0) \cup LeafLevels(m, BaseRightOf(p), 0)

\* the three neighbor references of node n that are not empty
NeighborsOf(n) == {n.BaseNeighbor, n.LeftNeighbor, n.RightNeighbor} \ {NULL}

\* every neighbor of a leaf is a leaf of the tile that has the leaf among its
\* neighbors, and the base neighbor of a leaf has the leaf as its base
\* neighbor or is one level coarser
NeighborsAgree(m, lv) ==
  \A a \in lv :
    /\ \A q \in NeighborsOf(m[a[1]]) :
         /\ \E b \in lv : b[1] = q
         /\ a[1] \in NeighborsOf(m[q])
    /\ m[a[1]].BaseNeighbor # NULL =>
         \E b \in lv :
           /\ b[1] = m[a[1]].BaseNeighbor
           /\ m[b[1]].BaseNeighbor = a[1] \/ b[2] = a[2] - 1

\* the edges of triangle t, as sets of two grid positions
EdgesOf(t) == {{t[1], t[2]}, {t[1], t[3]}, {t[2], t[3]}}

\* every edge of a leaf triangle that is not on a border of the tile is an
\* edge of exactly one other leaf triangle: the shared edge is subdivided
\* alike on both sides
NoTJunction(leaves) ==
  \A t \in leaves :
    \A e \in EdgesOf(t) :
      (\E b \in Borders : EdgeOnBorder(e, b))
        \/ Cardinality({u \in leaves : e \in EdgesOf(u)}) = 2

\* C21: after a Tessellate call in which no allocation failed, every
\* non-empty neighbor reference of a leaf of the tile points to a leaf that
\* references it back in one of its three neighbor slots, the base neighbor
\* of a leaf has the leaf as its base neighbor or is exactly one level
\* coarser, and no leaf borders a triangle whose shared edge is subdivided
\* differently.
C21_RestrictedMesh ==
  (/\ lastCall.op = "Tessellate"
   /\ \A i \in DOMAIN lastCall.allocs : lastCall.allocs[i].ok)
    => /\ NeighborsAgree(mem[lastCall.shadowPass],
                         TileLeafLevels(mem[lastCall.shadowPass], lastCall.p))
       /\ NoTJunction(TileLeaves(mem[lastCall.shadowPass], lastCall.p))

\* a call without a failed allocation has force-split a coarser base
\* neighbor and left leaves of different levels side by side
C21_Witness ==
  /\ lastCall.op = "Tessellate"
  /\ \A i \in DOMAIN lastCall.allocs : lastCall.allocs[i].ok
  /\ SomeSplit(LAMBDA r : /\ r.pre.BaseNeighbor # NULL
                          /\ r.pbn.BaseNeighbor # r.tri
                          /\ IsLeaf(r.pre) /\ IsBranch(r.post))
  /\ \E a \in TileLeafLevels(mem[lastCall.shadowPass], lastCall.p) :
       \E b \in TileLeafLevels(mem[lastCall.shadowPass], lastCall.p) :
         /\ b[1] = mem[lastCall.shadowPass][a[1]].BaseNeighbor
         /\ b[2] = a[2] - 1

(***************************************************************************)
(* C22.  The smallest triangles are never split.                           *)
(***************************************************************************)
\* the split triangles under tri as <<left, rght, level>>, with the
\* coordinates RecursTessellate hands down
RECURSIVE BranchHyps(_, _, _, _, _, _)
BranchHyps(m, tri, left, rght, apex, level) ==
  IF m[tri].LeftChild = NULL \/ m[tri].RightChild = NULL
  THEN {}
  ELSE {<<left, rght, level>>}
       \cup BranchHyps(m, m[tri].LeftChild, apex, left,
                       <<(left[1] + rght[1]) \div 2, (left[2] + rght[2]) \div 2>>,
                       level + 1)
       \cup BranchHyps(m, m[tri].RightChild, rght, apex,
                       <<(left[1] + rght[1]) \div 2, (left[2] + rght[2]) \div 2>>,
                       level + 1)

\* the split triangles of the two trees of tile p
TileBranchHyps(m, p) ==
  BranchHyps(m, BaseLeftOf(p), <<0, PATCH_SIZE>>, <<PATCH_SIZE, 0>>, <<0, 0>>, 0)
  \cup BranchHyps(m, BaseRightOf(p), <<PATCH_SIZE, 0>>, <<0, PATCH_SIZE>>,
                  <<PATCH_SIZE, PATCH_SIZE>>, 0)

\* the level of the triangles whose hypotenuse spans one grid unit:
\* two levels for every halving of the tile
RECURSIVE FinestLevel(_)
FinestLevel(size) == IF size <= 1 THEN 0 ELSE 2 + FinestLevel(size \div 2)

\* the hypotenuse left-rght spans more than 1 grid unit in some axis
SpansMoreThanOne(left, rght) ==
  \/ left[1] - rght[1] > 1 \/ rght[1] - left[1] > 1
  \/ left[2] - rght[2] > 1 \/ rght[2] - left[2] > 1

\* the midpoint of left-rght is a grid point of the tile
MidpointOnGrid(left, rght) ==
  /\ (left[1] + rght[1]) % 2 = 0
  /\ (left[2] + rght[2]) % 2 = 0
  /\ <<(left[1] + rght[1]) \div 2, (left[2] + rght[2]) \div 2>> \in Grid

\* C22: no triangle whose hypotenuse spans at most 1 grid unit in both axes
\* is ever split, by the walk or by a forced or diamond-partner split: after
\* every Tessellate call, with or without failed allocations, every split
\* triangle of the tile has a hypotenuse that spans more than 1 grid unit in
\* some axis, lies above the finest level of the tile, and has a midpoint
\* that is an integer grid point of the tile.
C22_SmallestNeverSplit ==
  lastCall.op = "Tessellate" =>
    \A b \in TileBranchHyps(mem[lastCall.shadowPass], lastCall.p) :
      /\ SpansMoreThanOne(b[1], b[2])
      /\ b[3] < FinestLevel(PATCH_SIZE)
      /\ MidpointOnGrid(b[1], b[2])

\* a Tessellate call with a forced split of a coarser base neighbor has left
\* a triangle of the finest level, whose hypotenuse spans one grid unit,
\* unsplit
C22_Witness ==
  /\ lastCall.op = "Tessellate"
  /\ SomeSplit(LAMBDA r : /\ r.pre.BaseNeighbor # NULL
                          /\ r.pbn.BaseNeighbor # r.tri
                          /\ IsLeaf(r.pre) /\ IsBranch(r.post))
  /\ \E a \in TileLeafLevels(mem[lastCall.shadowPass], lastCall.p) :
       a[2] = FinestLevel(PATCH_SIZE)
  /\ \E t \in TileLeaves(mem[lastCall.shadowPass], lastCall.p) :
       ~SpansMoreThanOne(t[2], t[3])

(***************************************************************************)
(* C23.  The pools of the two passes and the shared target size.           *)
(***************************************************************************)
\* every pool of each pass has the capacity derived from CUR_POOL_SIZE
PoolsFollowTarget ==
  \A ps \in Passes : \A w \in DOMAIN pools[ps] :
    pools[ps][w].size = ThrPoolSize(CUR_POOL_SIZE)

\* the ResetAll that just returned found a pool of its pass out of nodes and
\* smaller than the capacity MAX_POOL_SIZE allows, and no allocation of
\* pools failed in it
RanOutBelowCap ==
  /\ lastCall.op = "ResetAll" /\ ~initCall.active /\ ~lastCall.retried
  /\ lastCall.outOfNodes
  /\ \E w \in DOMAIN lastCall.sizes : lastCall.sizes[w] < ThrPoolSize(lastCall.max)
  /\ MAX_POOL_SIZE = lastCall.max

\* the pools of the pass of the last call are larger than that call found them
PoolsGrew ==
  \A w \in DOMAIN lastCall.sizes :
    /\ w \in DOMAIN pools[lastCall.shadowPass]
    /\ pools[lastCall.shadowPass][w].size > lastCall.sizes[w]

\* C23, first half: once no InitPools call is under way, every pool of the
\* main and of the shadow pass has the capacity derived from the current
\* global target size CUR_POOL_SIZE.
C23_EveryPoolFollowsTarget == ~initCall.active => PoolsFollowTarget

\* C23, second half: a pass whose pools ran out of nodes while smaller than
\* the capacity the cap allows has larger pools when its next ResetAll
\* returns.
C23_ExhaustedPassGrows == RanOutBelowCap => PoolsGrew

\* C23: per-pass pool sizing is consistent with the global target: every
\* pool of each pass has the capacity derived from the current global target
\* size, and a pass whose pools ran out of nodes while smaller than the
\* capacity the cap allows gets larger pools at its next ResetAll, whatever
\* happened in the other pass.
C23_PassPoolsConsistent ==
  /\ C23_EveryPoolFollowsTarget
  /\ C23_ExhaustedPassGrows

====
